---- MODULE Spec2Model ----
(***************************************************************************)
(* AllergyGuard API: the allergen risk classifier, its rule-based menu     *)
(* analysis, the staff-response classifier, the request handlers that      *)
(* persist their results, the allergen catalog seeding, the scan history,  *)
(* and the preferences and allergens of a user.                            *)
(*                                                                         *)
(* Python strings are TLA+ strings (Len, SubSeq, Head, Tail and \o apply   *)
(* to them); a character is a string of length 1.  Confidence values and   *)
(* Numeric(3, 2) columns are integers counting hundredths: 0.3 is 30.      *)
(***************************************************************************)
EXTENDS Integers, Sequences, FiniteSets, TLC

VARIABLES
    client,             \* openai_service.client is not None
    allergens,          \* committed rows of table "allergens", in insertion order
    scans,              \* committed rows of table "scans"
    scan_dishes,        \* committed rows of table "scan_dishes"
    response_analyses,  \* committed rows of table "response_analyses"
    next_id,            \* source of fresh primary keys (uuid4)
    seed_runs,          \* completed invocations of seed_allergens
    last,               \* the last request handled and the response it got
    menu_text,          \* input of the rule-based analysis under SpecFallback
    user_allergens,     \* input of the rule-based analysis under SpecFallback
    fallback,           \* result of the rule-based analysis under SpecFallback
    user_preferences,   \* table user_preferences: a set of rows
    user_allergen_rows, \* table user_allergens: a set of rows
    sessions,           \* the requests in flight, each with its database session
    users               \* table users: a set of rows

vars == << users, client, allergens, scans, scan_dishes, response_analyses, next_id,
           seed_runs, last, menu_text, user_allergens, fallback,
           user_preferences, user_allergen_rows, sessions >>

(***************************************************************************)
(* The allergen catalog (seed_data.ALLERGENS_DATA).  An icon glyph is      *)
(* written as its code point.                                              *)
(***************************************************************************)
ALLERGENS_DATA ==
  <<
    [ id |-> "peanuts", name |-> "Peanuts", icon |-> "U+1F95C",
      synonyms |-> <<
        "groundnuts", "arachis oil", "monkey nuts", "earth nuts", "goober peas",
        "peanut butter", "peanut oil", "arachis hypogaea" >>,
      hidden_sources |-> <<
        "Satay sauce", "Some curries (Thai, Indonesian)", "African stews", "Pad Thai",
        "Peanut oil (may be refined)", "Some salad dressings", "Egg rolls",
        "Marzipan (sometimes)", "Nougat", "Some ice creams", "Chili", "Baked goods",
        "Candy", "Energy bars" >>,
      cuisine_patterns |-> << <<"thai", "high_risk">>, <<"indonesian", "high_risk">>, <<"vietnamese", "medium_risk">>, <<"chinese", "medium_risk">>, <<"african", "high_risk">> >> ],
    [ id |-> "treenuts", name |-> "Tree Nuts", icon |-> "U+1F330",
      synonyms |-> <<
        "almonds", "cashews", "walnuts", "pecans", "pistachios", "macadamia",
        "brazil nuts", "hazelnuts", "chestnuts", "pine nuts", "praline", "marzipan",
        "nougat", "gianduja" >>,
      hidden_sources |-> <<
        "Pesto (pine nuts)", "Marzipan", "Praline", "Nougat", "Baklava", "Some cereals",
        "Mortadella", "Natural extracts", "Nut oils", "Nut butters", "Baked goods",
        "Ice cream", "Salads", "Desserts", "Energy bars" >>,
      cuisine_patterns |-> << <<"italian", "medium_risk">>, <<"middle_eastern", "high_risk">>, <<"indian", "medium_risk">>, <<"french", "medium_risk">> >> ],
    [ id |-> "dairy", name |-> "Dairy", icon |-> "U+1F95B",
      synonyms |-> <<
        "milk", "lactose", "casein", "whey", "cream", "butter", "cheese", "ghee", "yogurt",
        "lactalbumin", "lactoglobulin", "curds", "custard", "half-and-half", "sour cream" >>,
      hidden_sources |-> <<
        "Bread and baked goods", "Processed meats", "Salad dressings", "Chocolate",
        "Caramel", "Nougat", "Some margarines", "Instant mashed potatoes", "Cream soups",
        "Sauces", "Non-dairy creamers (may contain casein)", "Some medications" >>,
      cuisine_patterns |-> << <<"italian", "high_risk">>, <<"french", "high_risk">>, <<"indian", "high_risk">>, <<"american", "high_risk">> >> ],
    [ id |-> "eggs", name |-> "Eggs", icon |-> "U+1F95A",
      synonyms |-> <<
        "albumin", "globulin", "lysozyme", "mayonnaise", "meringue", "ovalbumin",
        "ovomucin", "ovomucoid", "ovovitellin", "egg lecithin", "livetin", "vitellin" >>,
      hidden_sources |-> <<
        "Pasta (fresh)", "Mayonnaise", "Meringue", "Marshmallows",
        "Meatballs and meatloaf", "Baked goods", "Breaded foods", "Egg wash on pastries",
        "Some wines (fining)", "Foam on coffee", "Some vaccines", "Hollandaise sauce",
        "Caesar dressing" >>,
      cuisine_patterns |-> << <<"french", "high_risk">>, <<"italian", "medium_risk">>, <<"american", "medium_risk">>, <<"japanese", "medium_risk">> >> ],
    [ id |-> "wheat", name |-> "Wheat/Gluten", icon |-> "U+1F33E",
      synonyms |-> <<
        "flour", "semolina", "durum", "spelt", "kamut", "einkorn", "farina", "graham",
        "bulgur", "couscous", "seitan", "gluten", "bread crumbs", "bran", "germ", "starch" >>,
      hidden_sources |-> <<
        "Soy sauce", "Beer", "Imitation crab", "Processed meats", "Ice cream", "Marinades",
        "Salad dressings", "Soups", "Candy", "Modified food starch",
        "Hydrolyzed vegetable protein", "Some medications", "Communion wafers", "Play-Doh" >>,
      cuisine_patterns |-> << <<"italian", "high_risk">>, <<"chinese", "medium_risk">>, <<"japanese", "medium_risk">>, <<"american", "high_risk">> >> ],
    [ id |-> "soy", name |-> "Soy", icon |-> "U+1FAD8",
      synonyms |-> <<
        "soya", "edamame", "tofu", "tempeh", "miso", "soy sauce", "soy lecithin",
        "soy protein", "textured vegetable protein", "soybean oil", "soy milk", "tamari" >>,
      hidden_sources |-> <<
        "Vegetable oil", "Vegetable broth", "Processed foods", "Baked goods",
        "Canned tuna", "Cereals", "Infant formula", "Sauces", "Soups",
        "Low-fat peanut butter", "Meat alternatives" >>,
      cuisine_patterns |-> << <<"chinese", "high_risk">>, <<"japanese", "high_risk">>, <<"korean", "high_risk">>, <<"thai", "medium_risk">> >> ],
    [ id |-> "fish", name |-> "Fish", icon |-> "U+1F41F",
      synonyms |-> <<
        "cod", "salmon", "tuna", "bass", "flounder", "haddock", "halibut", "perch", "pike",
        "pollock", "snapper", "sole", "swordfish", "tilapia", "trout", "anchovies",
        "sardines" >>,
      hidden_sources |-> <<
        "Worcestershire sauce", "Caesar salad dressing", "Caponata", "Fish sauce",
        "Asian dishes", "Some BBQ sauces", "Gelatin (sometimes)", "Imitation crab",
        "Omega-3 supplements" >>,
      cuisine_patterns |-> << <<"japanese", "high_risk">>, <<"thai", "high_risk">>, <<"vietnamese", "high_risk">>, <<"mediterranean", "medium_risk">> >> ],
    [ id |-> "shellfish", name |-> "Shellfish", icon |-> "U+1F990",
      synonyms |-> <<
        "shrimp", "prawns", "crab", "lobster", "crayfish", "crawfish", "scampi",
        "langoustine", "krill" >>,
      hidden_sources |-> <<
        "Fish sauce", "XO sauce", "Oyster sauce", "Bouillabaisse", "Fried rice (often)",
        "Pad Thai", "Spring rolls", "Glucosamine supplements", "Some calcium supplements" >>,
      cuisine_patterns |-> << <<"chinese", "high_risk">>, <<"thai", "high_risk">>, <<"japanese", "high_risk">>, <<"cajun", "high_risk">> >> ],
    [ id |-> "sesame", name |-> "Sesame", icon |-> "U+1F331",
      synonyms |-> <<
        "tahini", "sesame oil", "sesame seeds", "halvah", "hummus", "benne seeds",
        "gingelly oil", "sesamol", "sesamolin" >>,
      hidden_sources |-> <<
        "Hummus", "Bread and buns (on top)", "Falafel", "Sushi", "Salad dressings",
        "Margarine", "Some soaps and cosmetics", "Pasteli", "Asian dishes",
        "Middle Eastern cuisine" >>,
      cuisine_patterns |-> << <<"middle_eastern", "high_risk">>, <<"asian", "medium_risk">>, <<"japanese", "medium_risk">>, <<"korean", "medium_risk">> >> ],
    [ id |-> "mustard", name |-> "Mustard", icon |-> "U+1F7E1",
      synonyms |-> <<
        "mustard seed", "mustard powder", "mustard oil", "mustard flour", "dijon",
        "yellow mustard", "brown mustard", "sinapis" >>,
      hidden_sources |-> <<
        "Salad dressings", "Marinades", "Sauces", "Processed meats", "Curry powder",
        "Pickles", "Indian food", "BBQ sauce", "Mayonnaise (sometimes)",
        "Ketchup (sometimes)" >>,
      cuisine_patterns |-> << <<"indian", "high_risk">>, <<"french", "medium_risk">>, <<"american", "medium_risk">> >> ],
    [ id |-> "celery", name |-> "Celery", icon |-> "U+1F96C",
      synonyms |-> <<
        "celeriac", "celery salt", "celery seed", "celery powder", "celery root",
        "celery leaf" >>,
      hidden_sources |-> <<
        "Stocks and broths", "Soups", "Stews", "Salads", "Bloody Mary mix", "Spice mixes",
        "Processed meats", "Stuffing", "Some seasonings" >>,
      cuisine_patterns |-> << <<"european", "medium_risk">>, <<"american", "medium_risk">> >> ],
    [ id |-> "lupin", name |-> "Lupin", icon |-> "U+1F338",
      synonyms |-> <<
        "lupine", "lupin flour", "lupin seeds", "lupin beans", "lupini beans" >>,
      hidden_sources |-> <<
        "Bread", "Pastries", "Pasta", "Some gluten-free products",
        "Mediterranean appetizers", "Beer (sometimes)" >>,
      cuisine_patterns |-> << <<"mediterranean", "medium_risk">>, <<"european", "medium_risk">> >> ],
    [ id |-> "molluscs", name |-> "Molluscs", icon |-> "U+1F991",
      synonyms |-> <<
        "squid", "calamari", "octopus", "snails", "escargot", "clams", "mussels",
        "oysters", "scallops", "abalone" >>,
      hidden_sources |-> <<
        "Oyster sauce", "Fish sauce", "Paella", "Bouillabaisse", "Some Asian dishes",
        "Sushi", "Seafood salads" >>,
      cuisine_patterns |-> << <<"chinese", "high_risk">>, <<"japanese", "high_risk">>, <<"french", "medium_risk">>, <<"spanish", "medium_risk">> >> ],
    [ id |-> "sulphites", name |-> "Sulphites", icon |-> "U+1F377",
      synonyms |-> <<
        "sulphur dioxide", "sodium sulphite", "sodium bisulphite", "sodium metabisulphite",
        "potassium bisulphite", "E220", "E221", "E222", "E223", "E224", "E225", "E226",
        "E227", "E228" >>,
      hidden_sources |-> <<
        "Wine", "Dried fruits", "Preserved vegetables", "Pickled foods", "Vinegar",
        "Grape juice", "Beer", "Some medications", "Processed potatoes", "Shrimp" >>,
      cuisine_patterns |-> << <<"general", "medium_risk">> >> ]
  >>

CatalogIds == { ALLERGENS_DATA[i].id : i \in 1..Len(ALLERGENS_DATA) }

\* the entry of ALLERGENS_DATA with this id
CatalogEntryOf(id) ==
    ALLERGENS_DATA[CHOOSE i \in 1..Len(ALLERGENS_DATA) : ALLERGENS_DATA[i].id = id]

(***************************************************************************)
(* Python str and list primitives used by openai_service.                  *)
(***************************************************************************)
Min2(a, b) == IF a <= b THEN a ELSE b

SetMin(S) == CHOOSE x \in S : \A y \in S : x <= y

SetMax(S) == CHOOSE x \in S : \A y \in S : y <= x

Range(s) == { s[i] : i \in 1..Len(s) }

CharAt(s, i) == SubSeq(s, i, i)

\* str.lower() of one character
LowerChar(c) ==
    CASE c = "A" -> "a" [] c = "B" -> "b" [] c = "C" -> "c" [] c = "D" -> "d"
      [] c = "E" -> "e" [] c = "F" -> "f" [] c = "G" -> "g" [] c = "H" -> "h"
      [] c = "I" -> "i" [] c = "J" -> "j" [] c = "K" -> "k" [] c = "L" -> "l"
      [] c = "M" -> "m" [] c = "N" -> "n" [] c = "O" -> "o" [] c = "P" -> "p"
      [] c = "Q" -> "q" [] c = "R" -> "r" [] c = "S" -> "s" [] c = "T" -> "t"
      [] c = "U" -> "u" [] c = "V" -> "v" [] c = "W" -> "w" [] c = "X" -> "x"
      [] c = "Y" -> "y" [] c = "Z" -> "z" [] OTHER -> c

RECURSIVE Lower(_)
\* str.lower()
Lower(s) ==
    IF Len(s) = 0 THEN ""
    ELSE IF Len(s) = 1 THEN LowerChar(s)
    ELSE Lower(SubSeq(s, 1, Len(s) \div 2)) \o Lower(SubSeq(s, Len(s) \div 2 + 1, Len(s)))

\* sub in s
Contains(sub, s) ==
    \E i \in 1..(Len(s) - Len(sub) + 1) : SubSeq(s, i, i + Len(sub) - 1) = sub

Whitespace == { " ", "\t", "\n", "\r" }

\* str.strip()
Strip(s) ==
    LET keep == { i \in 1..Len(s) : CharAt(s, i) \notin Whitespace }
    IN  IF keep = {} THEN "" ELSE SubSeq(s, SetMin(keep), SetMax(keep))

RECURSIVE SplitLines(_)
\* str.split('\n')
SplitLines(s) ==
    LET nl == { i \in 1..Len(s) : CharAt(s, i) = "\n" }
    IN  IF nl = {} THEN << s >>
        ELSE << SubSeq(s, 1, SetMin(nl) - 1) >>
                 \o SplitLines(SubSeq(s, SetMin(nl) + 1, Len(s)))

\* len(str.split()): the maximal runs of non-whitespace characters
WordCount(s) ==
    Cardinality({ i \in 1..Len(s) :
                    /\ CharAt(s, i) \notin Whitespace
                    /\ (i = 1 \/ CharAt(s, i - 1) \in Whitespace) })

RECURSIVE Remove(_, _)
\* str.replace(c, '')
Remove(s, c) ==
    IF Len(s) = 0 THEN ""
    ELSE IF Len(s) = 1 THEN (IF s = c THEN "" ELSE s)
    ELSE Remove(SubSeq(s, 1, Len(s) \div 2), c)
           \o Remove(SubSeq(s, Len(s) \div 2 + 1, Len(s)), c)

Digits == { "0", "1", "2", "3", "4", "5", "6", "7", "8", "9" }

\* str.isdigit()
IsDigit(s) == Len(s) > 0 /\ \A i \in 1..Len(s) : CharAt(s, i) \in Digits

\* s[:n]
Prefix(s, n) == SubSeq(s, 1, Min2(n, Len(s)))

RECURSIVE Join(_, _)
\* sep.join(items)
Join(sep, items) ==
    IF Len(items) = 0 THEN ""
    ELSE IF Len(items) = 1 THEN items[1]
    ELSE items[1] \o sep \o Join(sep, Tail(items))

\* [f(x) for x in s]
Map(Op(_), s) == [ i \in 1..Len(s) |-> Op(s[i]) ]

(***************************************************************************)
(* openai_service: the rule-based menu analysis.                           *)
(***************************************************************************)
MinLineLen == 3

MaxHeaderWords == 2

MaxDishes == 15

MaxFallbackChars == 100

MaxNameChars == 80

RuleBasedConfidence == 30

\* as get_allergen_synonyms, for the last identifier of the list only
get_allergen_synonyms_last(allergen_ids) ==
    SelectSeq(ALLERGENS_DATA,
              LAMBDA a : Len(allergen_ids) > 0 /\ a.id = allergen_ids[Len(allergen_ids)])

\* The entries of ALLERGENS_DATA whose id is in allergen_ids, in catalog
\* order: the dict id -> {name, synonyms, hidden_sources} in insertion order.
get_allergen_synonyms(allergen_ids) ==
    SelectSeq(ALLERGENS_DATA, LAMBDA a : a.id \in Range(allergen_ids))

header_patterns ==
    << "appetizer", "entree", "dessert", "drink", "beverage", "side",
       "lunch", "dinner", "breakfast", "special", "menu", "price" >>

_is_section_header(line) ==
    /\ \E i \in 1..Len(header_patterns) : Contains(header_patterns[i], Lower(line))
    /\ WordCount(line) <= MaxHeaderWords

_is_price_only(line) == IsDigit(Remove(Remove(Remove(line, "$"), "."), ","))

\* The lines kept as dishes, before the cap.
potential_dishes(text) ==
    LET stripped == Map(Strip, SplitLines(text))
        lines    == SelectSeq(stripped, LAMBDA l : Len(l) > 0 /\ Len(l) > MinLineLen)
    IN  SelectSeq(lines, LAMBDA l : ~_is_price_only(l) /\ ~_is_section_header(l))

\* as _extract_dishes_from_text, without the [:15] slice
_extract_dishes_uncapped(text) ==
    LET kept == potential_dishes(text)
    IN  IF Len(kept) = 0
        THEN << IF Len(text) > MaxFallbackChars
                THEN Prefix(text, MaxFallbackChars) \o "..."
                ELSE text >>
        ELSE kept

_extract_dishes_from_text(text) ==
    LET kept == potential_dishes(text)
    IN  IF Len(kept) = 0
        THEN << IF Len(text) > MaxFallbackChars
                THEN Prefix(text, MaxFallbackChars) \o "..."
                ELSE text >>
        ELSE Prefix(kept, MaxDishes)

\* [name] + synonyms + hidden_sources
all_terms(info) == << info.name >> \o info.synonyms \o info.hidden_sources

_check_allergens_in_text(dish_text, allergen_info) ==
    LET dish_lower == Lower(dish_text)
        hit(info)  == \E term \in Range(all_terms(info)) :
                          Contains(Lower(term), dish_lower)
    IN  Map(LAMBDA info : info.id, SelectSeq(allergen_info, hit))

NoteDetected(detected) ==
    "RULE-BASED ANALYSIS: Detected keywords for: " \o Join(", ", detected)
      \o ". AI analysis unavailable - please verify all ingredients with restaurant staff."

NoteNoneDetected ==
    "RULE-BASED ANALYSIS: No obvious allergen keywords found, but AI analysis unavailable. Verify ALL ingredients with restaurant staff before ordering."

\* as RuleBasedRisk, with "low" where nothing was detected
RuleBasedRiskLow(detected) == IF Len(detected) > 0 THEN "high" ELSE "low"

RuleBasedRisk(detected) == IF Len(detected) > 0 THEN "high" ELSE "medium"

RuleBasedDish(dish_text, allergen_info) ==
    LET detected == _check_allergens_in_text(dish_text, allergen_info)
    IN  [ name               |-> Prefix(dish_text, MaxNameChars),
          risk_level         |-> RuleBasedRisk(detected),
          detected_allergens |-> detected,
          confidence         |-> RuleBasedConfidence,
          notes              |-> IF Len(detected) > 0 THEN NoteDetected(detected)
                                 ELSE NoteNoneDetected ]

rule_based_menu_analysis(text, allergen_ids) ==
    LET allergen_info == get_allergen_synonyms(allergen_ids)
    IN  [ dishes |-> Map(LAMBDA d : RuleBasedDish(d, allergen_info),
                         _extract_dishes_from_text(text)) ]

(***************************************************************************)
(* State after construction.                                               *)
(***************************************************************************)
NoRequest == [ endpoint |-> "none" ]

NoFallback == [ done |-> FALSE, extracted |-> << >>, dishes |-> << >> ]

\* no request is in flight
NoSessions == << >>

InitTables ==
    /\ user_preferences = {}
    /\ user_allergen_rows = {}
    /\ sessions = NoSessions
    /\ users = {}
    /\ allergens = << >>
    /\ scans = {}
    /\ scan_dishes = {}
    /\ response_analyses = {}
    /\ next_id = 1
    /\ seed_runs = 0
    /\ last = NoRequest

(***************************************************************************)
(* SpecFallback: the rule-based analysis applied to menu texts and         *)
(* allergen lists drawn from bounded sets.  A menu text is MaxFill or      *)
(* fewer copies of a filler line followed by MaxTail or fewer lines of     *)
(* TailLines, joined by line breaks.                                       *)
(***************************************************************************)
MaxFill == 16

MaxTail == 1

FillerLines == << "Soup of the day", "$12.50" >>

TailLines ==
    << "Cod", "Shrimp special", "Tofu stir fry", "Garden greens", "   ", "DESSERTS, E220",
       "Slow roasted vegetables with herbs, olive oil, sea salt, lemon zest and a few prawns" >>

AllergenLists ==
    { << "fish" >>, << "soy", "shellfish", "soy" >>, << "sulphites", "nosuch" >> }

Repeat(x, n) == [ i \in 1..n |-> x ]

Tails == UNION { [ 1..n -> Range(TailLines) ] : n \in 0..MaxTail }

\* no filler, one filler line, and fillers up to and past the dish cap
FillCounts == { 0, 1 } \cup ((MaxDishes - 1)..MaxFill)

MenuTexts ==
    { Join("\n", Repeat(FillerLines[f], k) \o t) :
        f \in 1..Len(FillerLines), k \in FillCounts, t \in Tails }

InitFallback ==
    /\ InitTables
    /\ client = FALSE
    /\ menu_text \in MenuTexts
    /\ user_allergens \in AllergenLists
    /\ fallback = NoFallback

RunRuleBasedAnalysis ==
    /\ ~fallback.done
    /\ fallback' = [ done      |-> TRUE,
                     extracted |-> _extract_dishes_from_text(menu_text),
                     dishes    |-> rule_based_menu_analysis(menu_text, user_allergens).dishes ]
    /\ UNCHANGED << users, client, allergens, scans, scan_dishes, response_analyses, next_id,
                    seed_runs, last, menu_text, user_allergens,
                    user_preferences, user_allergen_rows, sessions >>

NextFallback == RunRuleBasedAnalysis

SpecFallback == InitFallback /\ [][NextFallback]_vars

(***************************************************************************)
(* SpecSubsets: the rule-based analysis called for one menu text and       *)
(* allergen lists of which one has every identifier of the other.  A menu  *)
(* text is MaxLines or fewer lines of SubsetLines.                         *)
(***************************************************************************)
MaxLines == 2

SubsetLists ==
    { << >>, << "fish" >>, << "soy", "shellfish", "soy" >>, << "shellfish", "soy" >>,
      << "fish", "shellfish", "soy" >>, << "sulphites", "nosuch" >> }

SubsetLines == << "Cod", "Tofu stir fry", "Garden greens", "Cod and prawns", "$12.50" >>

ShortMenuTexts ==
    { Join("\n", t) : t \in UNION { [ 1..n -> Range(SubsetLines) ] : n \in 0..MaxLines } }

InitSubsets ==
    /\ InitTables
    /\ client = FALSE
    /\ menu_text \in ShortMenuTexts
    /\ user_allergens \in SubsetLists
    /\ fallback = NoFallback

\* the analysis is called again for the same menu text and a list that has
\* every identifier of the list before; last keeps the call before
RunWithMoreAllergens ==
    \E more \in SubsetLists :
        /\ fallback.done
        /\ Range(user_allergens) \subseteq Range(more)
        /\ more # user_allergens
        /\ user_allergens' = more
        /\ fallback' = [ done      |-> TRUE,
                         extracted |-> _extract_dishes_from_text(menu_text),
                         dishes    |-> rule_based_menu_analysis(menu_text, more).dishes ]
        /\ last' = [ endpoint |-> "fallback", user_allergens |-> user_allergens,
                     dishes |-> fallback.dishes ]
        /\ UNCHANGED << users, client, allergens, scans, scan_dishes, response_analyses,
                        next_id, seed_runs, menu_text,
                        user_preferences, user_allergen_rows, sessions >>

NextSubsets ==
    \/ RunRuleBasedAnalysis
    \/ RunWithMoreAllergens

SpecSubsets == InitSubsets /\ [][NextSubsets]_vars

(***************************************************************************)
(* SpecSeed: the application start-up (main.lifespan), which seeds the     *)
(* allergen table, repeated over restarts, with reads of the table in      *)
(* between.  The table outlives the process: at the first start it is      *)
(* empty or holds rows stored under an earlier revision of the catalog.    *)
(***************************************************************************)
MaxSeedRuns == 3

MaxLegacy == 3

\* Allergen(id=..., name=..., icon=..., synonyms=..., hidden_sources=..., cuisine_patterns=...)
AllergenRow(allergen_data) ==
    [ id               |-> allergen_data.id,
      name             |-> allergen_data.name,
      icon             |-> allergen_data.icon,
      synonyms         |-> allergen_data.synonyms,
      hidden_sources   |-> allergen_data.hidden_sources,
      cuisine_patterns |-> allergen_data.cuisine_patterns ]

\* a row stored before the catalog listed synonyms and hidden sources
LegacyRow(allergen_data) ==
    [ AllergenRow(allergen_data) EXCEPT !.synonyms = << >>, !.hidden_sources = << >> ]

LegacyTables ==
    { Map(LegacyRow, SelectSeq(ALLERGENS_DATA, LAMBDA a : a.id \in ids)) :
        ids \in SUBSET { ALLERGENS_DATA[i].id : i \in 1..Min2(MaxLegacy, Len(ALLERGENS_DATA)) } }

\* select(Allergen).where(Allergen.id == id)
RowsWithId(table, id) == SelectSeq(table, LAMBDA r : r.id = id)

\* as seed_rows, writing the catalog entry over a row that exists (an upsert)
seed_rows_upsert(table) ==
    [ i \in 1..Len(table) |->
        IF table[i].id \in CatalogIds THEN AllergenRow(CatalogEntryOf(table[i].id))
        ELSE table[i] ]
      \o Map(AllergenRow,
             SelectSeq(ALLERGENS_DATA, LAMBDA a : Len(RowsWithId(table, a.id)) = 0))

\* The table after seed_allergens commits: a row is added for each catalog
\* entry that has none.
seed_rows(table) ==
    table \o Map(AllergenRow,
                 SelectSeq(ALLERGENS_DATA, LAMBDA a : Len(RowsWithId(table, a.id)) = 0))

\* scalar_one_or_none raises MultipleResultsFound on two rows with one id
seed_raises(table) == \E a \in Range(ALLERGENS_DATA) : Len(RowsWithId(table, a.id)) > 1

\* the primary key of table "allergens"
PrimaryKeyHolds(table) ==
    \A i, j \in 1..Len(table) : table[i].id = table[j].id => i = j

InitSeed ==
    /\ allergens \in LegacyTables
    /\ user_preferences = {}
    /\ user_allergen_rows = {}
    /\ sessions = NoSessions
    /\ users = {}
    /\ scans = {}
    /\ scan_dishes = {}
    /\ response_analyses = {}
    /\ next_id = 1
    /\ seed_runs = 0
    /\ last = NoRequest
    /\ client = FALSE
    /\ menu_text = ""
    /\ user_allergens = << >>
    /\ fallback = NoFallback

\* main.lifespan: seed_allergens(session) in a session of its own
seed_allergens ==
    /\ seed_runs < MaxSeedRuns
    /\ seed_runs' = seed_runs + 1
    /\ allergens' = IF ~seed_raises(allergens) /\ PrimaryKeyHolds(seed_rows(allergens))
                    THEN seed_rows(allergens)
                    ELSE allergens
    /\ last' = [ endpoint |-> "lifespan",
                 status   |-> IF ~seed_raises(allergens) /\ PrimaryKeyHolds(seed_rows(allergens))
                              THEN "started" ELSE "failed" ]
    /\ UNCHANGED << users, client, scans, scan_dishes, response_analyses, next_id,
                    menu_text, user_allergens, fallback,
                    user_preferences, user_allergen_rows, sessions >>

\* GET /allergens/{allergen_id}
get_allergen ==
    \E allergen_id \in CatalogIds \cup { "gluten" } :
        LET found == RowsWithId(allergens, allergen_id)
        IN  /\ last' = [ endpoint    |-> "get_allergen",
                         allergen_id |-> allergen_id,
                         status      |-> IF Len(found) = 0 THEN 404
                                         ELSE IF Len(found) = 1 THEN 200 ELSE 500 ]
            /\ UNCHANGED << users, client, allergens, scans, scan_dishes, response_analyses,
                            next_id, seed_runs, menu_text, user_allergens, fallback,
                    user_preferences, user_allergen_rows, sessions >>

NextSeed == seed_allergens \/ get_allergen

SpecSeed == InitSeed /\ [][NextSeed]_vars

\* C9: after any number of invocations of seed_allergens the allergen table
\* holds exactly one row per catalog identifier, 14 in all; an invocation
\* leaves every row that exists as it is, and after the first invocation the
\* table no longer changes.
C9_OnePerId ==
    seed_runs >= 1 =>
        /\ Len(allergens) = Len(ALLERGENS_DATA)
        /\ Len(allergens) = 14
        /\ \A id \in CatalogIds : Len(RowsWithId(allergens, id)) = 1

C9_RowsKept ==
    /\ Len(allergens') >= Len(allergens)
    /\ \A i \in 1..Len(allergens) : allergens'[i] = allergens[i]
    /\ seed_runs >= 1 => allergens' = allergens

C9_SeedIdempotent == [](C9_OnePerId) /\ [][C9_RowsKept]_vars

C9_Witness ==
    /\ seed_runs >= 2
    /\ last.endpoint = "lifespan"
    /\ last.status = "started"
    /\ \E i \in 1..Len(allergens) : allergens[i] = LegacyRow(CatalogEntryOf(allergens[i].id))
    /\ \E i \in 1..Len(allergens) : allergens[i] = AllergenRow(CatalogEntryOf(allergens[i].id))

(***************************************************************************)
(* The model backend and the services that call it.  The backend's reply   *)
(* to one call is an input: the call fails (network error, timeout, error  *)
(* status), or its content is not JSON, or its content is a JSON object.   *)
(* A JSON object is a function from the keys it has to their values.       *)
(***************************************************************************)
EmptyDict == [ k \in {} |-> 0 ]

\* dict.get(key, default)
Get(d, key, default) == IF key \in DOMAIN d THEN d[key] ELSE default

ApiError == [ kind |-> "api_error", json |-> EmptyDict ]

Unparsable == [ kind |-> "unparsable", json |-> EmptyDict ]

Json(d) == [ kind |-> "json", json |-> d ]

Raise(exc) == [ raised |-> TRUE, exc |-> exc, value |-> EmptyDict ]

Return(value) == [ raised |-> FALSE, exc |-> "", value |-> value ]

\* the body of analyze_menu_text
analyze_menu_text(reply) ==
    IF ~client THEN Raise("OpenAINotConfiguredError")
    ELSE IF reply.kind = "api_error" THEN Raise("RuntimeError")
    ELSE IF reply.kind = "unparsable" THEN Raise("RuntimeError")
    ELSE Return(reply.json)

\* the parameters of analyze_menu_text
analyze_menu_text_params == { "menu_text", "user_allergens", "cuisine_hint" }

\* A call of analyze_menu_text by keyword: a keyword that is no parameter
\* raises TypeError before the body runs.
call_analyze_menu_text(keywords, reply) ==
    IF ~(keywords \subseteq analyze_menu_text_params) THEN Raise("TypeError")
    ELSE analyze_menu_text(reply)

analyze_staff_response(reply) ==
    IF ~client THEN Raise("OpenAINotConfiguredError")
    ELSE IF reply.kind = "api_error" THEN Raise("RuntimeError")
    ELSE IF reply.kind = "unparsable" THEN Raise("RuntimeError")
    ELSE Return(reply.json)

\* openai_service.generate_smart_questions, which questions.py imports
generate_smart_questions(reply) ==
    IF ~client THEN Raise("OpenAINotConfiguredError")
    ELSE IF reply.kind = "api_error" THEN Raise("RuntimeError")
    ELSE IF reply.kind = "unparsable" THEN Raise("RuntimeError")
    ELSE Return(reply.json)

\* what the service met: no client, or the backend's reply
Backend(reply) == IF ~client THEN "not_configured" ELSE reply.kind

\* client.chat.completions.create was called: the body of the service ran
\* and found a client
BackendCalled(out) == client /\ out.exc # "TypeError"

\* the fields of a dish in the structure the prompt of analyze_menu_text
\* gives the model
RequiredDishFields == { "name", "risk_level", "detected_allergens", "confidence", "notes" }

\* the fields of the structure the prompt of analyze_staff_response gives
RequiredResponseFields == { "clarity", "confidence", "flags", "recommendation" }

(***************************************************************************)
(* Schemas and columns.                                                    *)
(***************************************************************************)
RiskLevels == { "low", "medium", "high" }

Clarities == { "clear", "unclear", "dangerous" }

\* Field(..., ge=0.0, le=1.0)
ConfidenceInRange(c) == 0 <= c /\ c <= 100

\* Numeric(3, 2): three digits, two of them after the point
NumericLimit == 1000

FitsNumeric(c) == -NumericLimit < c /\ c < NumericLimit

\* String(20)
LevelColumnLen == 20

\* String(255)
NameColumnLen == 255

\* DishAnalysis(...) validates
DishAnalysisValid(d) == d.risk_level \in RiskLevels /\ ConfidenceInRange(d.confidence)

\* ResponseAnalysisResponse(...) validates
ResponseValid(clarity, confidence) == clarity \in Clarities /\ ConfidenceInRange(confidence)

\* the status of the HTTPException a handler raises for an exception
ErrorStatus(exc) == IF exc = "OpenAINotConfiguredError" THEN 503 ELSE 500

(***************************************************************************)
(* routers/analysis.py and routers/questions.py: the handlers.             *)
(***************************************************************************)
\* as DefaultRiskLevel, with "low" for a dish that states no risk_level
DefaultRiskLevelLow == "low"

DefaultRiskLevel == "medium"

DefaultClarity == "unclear"

DefaultConfidence == 50

DefaultRiskSummary == "Please verify all ingredients with restaurant staff."

\* no linked scan (scan_id = None)
NoScan == 0

RECURSIVE SumSeq(_)
SumSeq(q) == IF Len(q) = 0 THEN 0 ELSE Head(q) + SumSeq(Tail(q))

\* the fields read from one dish of the model, with the defaults of d.get
DishFields(d, default_name) ==
    [ name               |-> Get(d, "name", default_name),
      risk_level         |-> Get(d, "risk_level", DefaultRiskLevel),
      detected_allergens |-> Get(d, "detected_allergens", << >>),
      confidence         |-> Get(d, "confidence", DefaultConfidence) ]

\* the dishes of the model's reply, when it replied with JSON
ModelDishes(reply) ==
    IF Backend(reply) = "json" THEN Get(reply.json, "dishes", << >>) ELSE << >>

\* POST /dish: the response for an outcome of the service call
dish_response(out, dish_name) ==
    IF out.raised THEN [ status |-> ErrorStatus(out.exc), dishes |-> << >> ]
    ELSE LET dishes == Get(out.value, "dishes", << >>)
         IN  IF Len(dishes) = 0 THEN [ status |-> 422, dishes |-> << >> ]
             ELSE IF ~DishAnalysisValid(DishFields(dishes[1], dish_name))
                  THEN [ status |-> 500, dishes |-> << >> ]
                  ELSE [ status |-> 200, dishes |-> << DishFields(dishes[1], dish_name) >> ]

\* the rows of a Scan with its ScanDish rows fit their columns and keys
ScanCommits(scan, dish_rows) ==
    /\ FitsNumeric(scan.avg_confidence)
    /\ \A d \in dish_rows :
           /\ Len(d.risk_level) <= LevelColumnLen
           /\ Len(d.name) <= NameColumnLen
           /\ FitsNumeric(d.confidence)

\* POST /menu: the response and the tables for an outcome of the service call.
\* A raised exception leaves the tables as they are (nothing was added, and
\* db.rollback() runs for all but the configuration error); a returned
\* result is written as one Scan and its ScanDish rows in one commit, and
\* the response is built after the commit.
menu_result(user, out) ==
    LET dishes   == Get(out.value, "dishes", << >>)
        fields   == [ i \in 1..Len(dishes) |-> DishFields(dishes[i], "Unknown") ]
        avg      == IF Len(dishes) = 0 THEN 0
                    ELSE SumSeq([ i \in 1..Len(dishes) |-> fields[i].confidence ])
                           \div Len(dishes)
        scan     == [ id |-> next_id, user_id |-> user, dish_count |-> Len(dishes),
                      avg_confidence |-> avg, created_at |-> next_id ]
        dish_rows == { [ id |-> next_id + i, scan_id |-> next_id,
                         name |-> fields[i].name, risk_level |-> fields[i].risk_level,
                         detected_allergens |-> fields[i].detected_allergens,
                         confidence |-> fields[i].confidence ] : i \in 1..Len(dishes) }
        kept     == [ status |-> 500, dishes |-> << >>, commit_raised |-> FALSE,
                      scans |-> scans, scan_dishes |-> scan_dishes, next_id |-> next_id ]
    IN  IF out.raised THEN [ kept EXCEPT !.status = ErrorStatus(out.exc) ]
        ELSE IF ~ScanCommits(scan, dish_rows) THEN [ kept EXCEPT !.commit_raised = TRUE ]
        ELSE [ commit_raised |-> FALSE,
               status      |-> IF \A i \in 1..Len(dishes) : DishAnalysisValid(fields[i])
                               THEN 200 ELSE 500,
               dishes      |-> IF \A i \in 1..Len(dishes) : DishAnalysisValid(fields[i])
                               THEN fields ELSE << >>,
               scans       |-> scans \cup { scan },
               scan_dishes |-> scan_dishes \cup dish_rows,
               next_id     |-> next_id + Len(dishes) + 1 ]

\* the ResponseAnalysis row fits its columns and keys
ResponseCommits(row) ==
    /\ Len(row.clarity) <= LevelColumnLen
    /\ FitsNumeric(row.confidence)
    /\ row.scan_id = NoScan \/ \E sc \in scans : sc.id = row.scan_id

\* POST /response: the response and the table for an outcome of the service
\* call.  The row is committed before the response is built.
response_result(user, scan_id, out) ==
    LET clarity    == Get(out.value, "clarity", DefaultClarity)
        confidence == Get(out.value, "confidence", DefaultConfidence)
        flags      == Get(out.value, "flags", << >>)
        row        == [ id |-> next_id, user_id |-> user, scan_id |-> scan_id,
                        clarity |-> clarity, confidence |-> confidence, flags |-> flags,
                        created_at |-> next_id ]
        kept       == [ status |-> 500, clarity |-> "", confidence |-> 0, flags |-> << >>,
                        created |-> {}, commit_raised |-> FALSE,
                        response_analyses |-> response_analyses, next_id |-> next_id ]
    IN  IF out.raised THEN [ kept EXCEPT !.status = ErrorStatus(out.exc) ]
        ELSE IF ~ResponseCommits(row) THEN [ kept EXCEPT !.commit_raised = TRUE ]
        ELSE IF ~ResponseValid(clarity, confidence)
             THEN [ kept EXCEPT !.created = { row },
                                !.response_analyses = response_analyses \cup { row },
                                !.next_id = next_id + 1 ]
             ELSE [ status |-> 200, clarity |-> clarity, confidence |-> confidence,
                    flags |-> flags, created |-> { row }, commit_raised |-> FALSE,
                    response_analyses |-> response_analyses \cup { row },
                    next_id |-> next_id + 1 ]

\* POST /questions/smart: the response for an outcome of the service call
smart_response(out) ==
    IF out.raised
    THEN [ status |-> ErrorStatus(out.exc), risk_summary |-> "",
           critical_allergens |-> << >>, most_concerning |-> << >> ]
    ELSE [ status |-> 200,
           risk_summary |-> Get(out.value, "risk_summary", DefaultRiskSummary),
           critical_allergens |-> Get(out.value, "critical_allergens", << >>),
           most_concerning |-> Get(out.value, "most_concerning", << >>) ]

(***************************************************************************)
(* Spec: the request handlers, after start-up.  Users, request fields and  *)
(* the backend's replies are drawn from bounded sets; MaxRows bounds the   *)
(* rows a table holds.                                                     *)
(***************************************************************************)
MaxRows == 1

Users == { "u1", "u2" }

RiskParts == { EmptyDict } \cup { "risk_level" :> r : r \in { "low", "high", "safe" } }

ConfidenceParts == { EmptyDict } \cup { "confidence" :> c : c \in { 150, 1000 } }

ClarityParts == { EmptyDict } \cup { "clarity" :> c : c \in { "clear", "maybe" } }

\* a dish with every field the prompt of analyze_menu_text asks for
CompleteDish ==
    [ name |-> "Pad Thai", risk_level |-> "high", detected_allergens |-> << "peanuts" >>,
      confidence |-> 90, notes |-> "Pad Thai is usually garnished with peanuts" ]

\* a result with every field the prompt of analyze_staff_response asks for
CompleteResponse ==
    [ clarity |-> "dangerous", confidence |-> 80, flags |-> << "don't worry" >>,
      recommendation |-> "Ask to speak with the chef." ]

MenuReplies ==
    { ApiError, Unparsable, Json(EmptyDict), Json("dishes" :> << >>),
      Json("dishes" :> << CompleteDish >>) }
      \cup { Json("dishes" :> << r @@ c >>) : r \in RiskParts, c \in ConfidenceParts }

ResponseReplies ==
    { ApiError, Unparsable, Json(CompleteResponse) }
      \cup { Json(cl @@ c) : cl \in ClarityParts, c \in ConfidenceParts }

\* a result with every field POST /questions/smart reads
CompleteSmartResult ==
    [ questions |-> << >>, risk_summary |-> "High risk: peanuts",
      critical_allergens |-> << "peanuts" >>, most_concerning |-> << "Pad Thai" >> ]

SmartReplies ==
    { ApiError, Unparsable, Json(EmptyDict), Json("risk_summary" :> "High risk: peanuts"),
      Json(CompleteSmartResult) }

\* requests to POST /menu and POST /dish: the caller, the text (menu_text,
\* or dish_name on POST /dish) and user_allergens, identifiers of the
\* catalog or not
MenuRequests ==
    { [ user |-> "u1", menu_text |-> "Grilled salmon with rice",
        user_allergens |-> << "fish" >> ],
      [ user |-> "u2", menu_text |-> "Pad Thai",
        user_allergens |-> << "nosuch", "fish" >> ] }

\* requests to POST /response: the caller, user_allergens, scan_id (none, or
\* an id) and response_text
ResponseRequests ==
    { [ user |-> "u1", user_allergens |-> << "fish" >>, scan_id |-> NoScan,
        response_text |-> "Don't worry, a little won't hurt" ],
      [ user |-> "u2", user_allergens |-> << "nosuch", "fish" >>, scan_id |-> NoScan,
        response_text |-> "I think it should be fine, probably no nuts" ],
      [ user |-> "u1", user_allergens |-> << "fish" >>, scan_id |-> 1,
        response_text |-> "No, the kitchen uses no nuts at all" ] }

Init ==
    /\ client \in BOOLEAN
    /\ user_preferences = {}
    /\ user_allergen_rows = {}
    /\ sessions = NoSessions
    /\ users = {}
    /\ allergens = seed_rows(<< >>)
    /\ scans = {}
    /\ scan_dishes = {}
    /\ response_analyses = {}
    /\ next_id = 1
    /\ seed_runs = 1
    /\ last = NoRequest
    /\ menu_text = ""
    /\ user_allergens = << >>
    /\ fallback = NoFallback

\* POST /menu
analyze_menu ==
    \E request \in MenuRequests, reply \in MenuReplies :
        LET user == request.user
            ids == request.user_allergens
            out == call_analyze_menu_text(
                       { "menu_text", "user_allergens", "cuisine_hint", "user_preferences" },
                       reply)
            res == menu_result(user, out)
        IN  /\ Cardinality(scans) < MaxRows
            /\ scans' = res.scans
            /\ scan_dishes' = res.scan_dishes
            /\ next_id' = res.next_id
            /\ last' = [ endpoint |-> "menu", user |-> user, user_allergens |-> ids,
                         menu_text |-> request.menu_text,
                         backend |-> Backend(reply), backend_called |-> BackendCalled(out),
                         exc |-> out.exc, model_dishes |-> ModelDishes(reply),
                         commit_raised |-> res.commit_raised,
                         status |-> res.status, dishes |-> res.dishes ]
            /\ UNCHANGED << users, client, allergens, response_analyses, seed_runs,
                            menu_text, user_allergens, fallback,
                    user_preferences, user_allergen_rows, sessions >>

\* POST /dish
analyze_single_dish ==
    \E request \in MenuRequests, reply \in MenuReplies :
        LET user == request.user
            ids == request.user_allergens
            out == call_analyze_menu_text({ "menu_text", "user_allergens" }, reply)
            res == dish_response(out, request.menu_text)
        IN  /\ last' = [ endpoint |-> "dish", user |-> user, user_allergens |-> ids,
                         menu_text |-> request.menu_text,
                         backend |-> Backend(reply), backend_called |-> BackendCalled(out),
                         exc |-> out.exc, model_dishes |-> ModelDishes(reply),
                         status |-> res.status, dishes |-> res.dishes ]
            /\ UNCHANGED << users, client, allergens, scans, scan_dishes, response_analyses,
                            next_id, seed_runs, menu_text, user_allergens, fallback,
                    user_preferences, user_allergen_rows, sessions >>

\* POST /response, for requests and replies of the given sets
post_response(requests, replies) ==
    \E request \in requests, reply \in replies :
        LET user == request.user
            ids == request.user_allergens
            scan_id == request.scan_id
            response_text == request.response_text
            out == analyze_staff_response(reply)
            res == response_result(user, scan_id, out)
        IN  /\ response_analyses' = res.response_analyses
            /\ next_id' = res.next_id
            /\ last' = [ endpoint |-> "response", user |-> user, user_allergens |-> ids,
                         scan_id |-> scan_id, response_text |-> response_text,
                         backend |-> Backend(reply), backend_called |-> BackendCalled(out),
                         exc |-> out.exc,
                         model_json |-> IF Backend(reply) = "json" THEN reply.json
                                        ELSE EmptyDict,
                         status |-> res.status, clarity |-> res.clarity,
                         confidence |-> res.confidence, flags |-> res.flags,
                         commit_raised |-> res.commit_raised, created |-> res.created ]
            /\ UNCHANGED << users, client, allergens, scans, scan_dishes, seed_runs,
                            menu_text, user_allergens, fallback,
                    user_preferences, user_allergen_rows, sessions >>

\* POST /questions/smart
generate_smart_questions_endpoint ==
    \E user \in Users, reply \in SmartReplies :
        LET out == generate_smart_questions(reply)
            res == smart_response(out)
        IN  /\ last' = [ endpoint |-> "smart", user |-> user, backend |-> Backend(reply),
                         exc |-> out.exc,
                         model_json |-> IF Backend(reply) = "json" THEN reply.json
                                        ELSE EmptyDict,
                         status |-> res.status, risk_summary |-> res.risk_summary,
                         critical_allergens |-> res.critical_allergens,
                         most_concerning |-> res.most_concerning ]
            /\ UNCHANGED << users, client, allergens, scans, scan_dishes, response_analyses,
                            next_id, seed_runs, menu_text, user_allergens, fallback,
                    user_preferences, user_allergen_rows, sessions >>

\* POST /response; at most MaxRows rows are written
analyze_response ==
    /\ Cardinality(response_analyses) < MaxRows
    /\ post_response(ResponseRequests, ResponseReplies)

Next ==
    \/ analyze_menu
    \/ analyze_single_dish
    \/ analyze_response
    \/ generate_smart_questions_endpoint

Spec == Init /\ [][Next]_vars

(***************************************************************************)
(* SpecHistory: the scan history endpoints of routers/analysis.py.  The    *)
(* database outlives the process: at start-up the tables scans and         *)
(* scan_dishes hold rows of the shape analyze_menu writes, and POST        *)
(* /response links ResponseAnalysis rows to them.                          *)
(***************************************************************************)
MaxStored == 3

\* the first id given out after start-up
FirstNewId == 100

StoredOwner(i) == IF i % 2 = 1 THEN "u1" ELSE "u2"

StoredRisk(k) == IF k = 1 THEN "high" ELSE "low"

\* a stored Scan; the i-th has i - 1 dishes and is the i-th oldest
StoredScan(i) ==
    [ id |-> i, user_id |-> StoredOwner(i), dish_count |-> i - 1,
      avg_confidence |-> IF i = 1 THEN 0 ELSE 70, created_at |-> i ]

StoredDishes(i) ==
    { [ id |-> 10 * i + k, scan_id |-> i, name |-> "Pad Thai", risk_level |-> StoredRisk(k),
        detected_allergens |-> << "peanuts" >>, confidence |-> 70 ] : k \in 1..(i - 1) }

InitHistory ==
    /\ client = TRUE
    /\ allergens = seed_rows(<< >>)
    /\ seed_runs = 1
    /\ \E n \in 1..MaxStored :
           /\ scans = { StoredScan(i) : i \in 1..n }
           /\ scan_dishes = UNION { StoredDishes(i) : i \in 1..n }
    /\ response_analyses = {}
    /\ next_id = FirstNewId
    /\ last = NoRequest
    /\ menu_text = ""
    /\ user_allergens = << >>
    /\ fallback = NoFallback
    /\ user_preferences = {}
    /\ user_allergen_rows = {}
    /\ sessions = NoSessions
    /\ users = {}

RECURSIVE SortedByRecency(_)
\* order_by(Scan.created_at.desc())
SortedByRecency(S) ==
    IF S = {} THEN << >>
    ELSE LET newest == CHOOSE x \in S : \A y \in S : y.created_at <= x.created_at
         IN  << newest >> \o SortedByRecency(S \ { newest })

\* as OffsetLimit, with the row after the last one of the page
OffsetLimitInclusive(q, offset, limit) ==
    SubSeq(q, offset + 1, Min2(Len(q), offset + limit + 1))

\* .offset(offset).limit(limit)
OffsetLimit(q, offset, limit) == SubSeq(q, offset + 1, Min2(Len(q), offset + limit))

DefaultPageSize == 10

MaxPageSize == 50

\* ScanSummary of a scan: the row with the risk counts of its dishes
ScanSummary(sc) ==
    [ id |-> sc.id, user_id |-> sc.user_id, dish_count |-> sc.dish_count,
      avg_confidence |-> sc.avg_confidence, created_at |-> sc.created_at,
      high_risk_count   |-> Cardinality({ d \in scan_dishes :
                                d.scan_id = sc.id /\ d.risk_level = "high" }),
      medium_risk_count |-> Cardinality({ d \in scan_dishes :
                                d.scan_id = sc.id /\ d.risk_level = "medium" }),
      low_risk_count    |-> Cardinality({ d \in scan_dishes :
                                d.scan_id = sc.id /\ d.risk_level = "low" }) ]

\* as owned_scan, selecting by id alone
any_scan(user, scan_id) == { sc \in scans : sc.id = scan_id }

\* select(Scan).where(Scan.id == scan_uuid, Scan.user_id == current_user.id)
owned_scan(user, scan_id) == { sc \in scans : sc.id = scan_id /\ sc.user_id = user }

\* page and page_size of a request
Pages == { 0, 1, 2 }

PageSizes == { 0, 1, 2, 51 }

\* the scan_id of a path: an id, stored or not
PathScanIds == 1..(MaxStored + 1)

others == << users, client, allergens, seed_runs, menu_text, user_allergens, fallback,
             user_preferences, user_allergen_rows, sessions >>

\* GET /history
get_scan_history ==
    \E user \in Users, page_in \in Pages, page_size_in \in PageSizes :
        LET page      == IF page_in < 1 THEN 1 ELSE page_in
            page_size == IF page_size_in < 1 \/ page_size_in > MaxPageSize
                         THEN DefaultPageSize ELSE page_size_in
            mine      == { sc \in scans : sc.user_id = user }
            rows      == OffsetLimit(SortedByRecency(mine), (page - 1) * page_size, page_size)
        IN  /\ last' = [ endpoint |-> "history", user |-> user, status |-> 200,
                         scans |-> [ i \in 1..Len(rows) |-> ScanSummary(rows[i]) ],
                         total_count |-> Cardinality(mine),
                         page_in |-> page_in, page_size_in |-> page_size_in,
                         page |-> page, page_size |-> page_size ]
            /\ UNCHANGED << scans, scan_dishes, response_analyses, next_id >>
            /\ UNCHANGED others

\* ResponseAnalysisSummary of a response analysis
ResponseAnalysisSummary(r) ==
    [ id |-> r.id, user_id |-> r.user_id, clarity |-> r.clarity,
      confidence |-> r.confidence, scan_id |-> r.scan_id, created_at |-> r.created_at ]

\* the query parameter scan_id: absent (or empty), not a UUID, or a UUID
NoFilter == [ given |-> FALSE, wellformed |-> TRUE, id |-> NoScan ]

BadFilter == [ given |-> TRUE, wellformed |-> FALSE, id |-> NoScan ]

ScanFilter(scan_id) == [ given |-> TRUE, wellformed |-> TRUE, id |-> scan_id ]

ScanFilters == { NoFilter, BadFilter } \cup { ScanFilter(i) : i \in { 1, 2 } }

\* the rows the filters of GET /responses select
filtered_responses(user, filter) ==
    { r \in response_analyses :
        r.user_id = user /\ (filter.given => r.scan_id = filter.id) }

\* GET /responses
get_response_history ==
    \E user \in Users, page_in \in Pages, page_size_in \in PageSizes, filter \in ScanFilters :
        LET page      == IF page_in < 1 THEN 1 ELSE page_in
            page_size == IF page_size_in < 1 \/ page_size_in > MaxPageSize
                         THEN DefaultPageSize ELSE page_size_in
            mine      == filtered_responses(user, filter)
            rows      == OffsetLimit(SortedByRecency(mine), (page - 1) * page_size, page_size)
        IN  /\ last' = IF filter.given /\ ~filter.wellformed
                       THEN [ endpoint |-> "responses", user |-> user, status |-> 400,
                              filter |-> filter, responses |-> << >>, total_count |-> 0,
                              page_in |-> page_in, page_size_in |-> page_size_in,
                              page |-> page, page_size |-> page_size ]
                       ELSE [ endpoint |-> "responses", user |-> user, status |-> 200,
                              filter |-> filter,
                              responses |-> [ i \in 1..Len(rows) |->
                                                ResponseAnalysisSummary(rows[i]) ],
                              total_count |-> Cardinality(mine),
                              page_in |-> page_in, page_size_in |-> page_size_in,
                              page |-> page, page_size |-> page_size ]
            /\ UNCHANGED << scans, scan_dishes, response_analyses, next_id >>
            /\ UNCHANGED others

\* GET /history/{scan_id}
get_scan_detail ==
    \E user \in Users, wellformed \in BOOLEAN, scan_id \in PathScanIds :
        LET found == owned_scan(user, scan_id)
        IN  /\ last' =
                 IF ~wellformed
                 THEN [ endpoint |-> "detail", user |-> user, scan_id |-> scan_id,
                        status |-> 400, found |-> {}, dishes |-> {}, response_analyses |-> {} ]
                 ELSE IF found = {}
                 THEN [ endpoint |-> "detail", user |-> user, scan_id |-> scan_id,
                        status |-> 404, found |-> {}, dishes |-> {}, response_analyses |-> {} ]
                 ELSE [ endpoint |-> "detail", user |-> user, scan_id |-> scan_id,
                        status |-> 200, found |-> found,
                        dishes |-> { d \in scan_dishes : d.scan_id = scan_id },
                        response_analyses |->
                            { r \in response_analyses : r.scan_id = scan_id } ]
            /\ UNCHANGED << scans, scan_dishes, response_analyses, next_id >>
            /\ UNCHANGED others

\* DELETE /history/{scan_id}.  The delete cascades to the dishes of the scan
\* (cascade="all, delete-orphan"); the ResponseAnalysis rows of the scan
\* stay, their scan_id set to NULL (no cascade on Scan.response_analyses,
\* ondelete="SET NULL" on the column).
delete_scan ==
    \E user \in Users, wellformed \in BOOLEAN, scan_id \in PathScanIds :
        LET found  == owned_scan(user, scan_id)
            linked == { r \in response_analyses : r.scan_id = scan_id }
        IN  IF ~wellformed \/ found = {}
            THEN /\ last' = [ endpoint |-> "delete_scan", user |-> user, scan_id |-> scan_id,
                              status |-> IF ~wellformed THEN 400 ELSE 404,
                              dishes |-> {}, linked |-> {} ]
                 /\ UNCHANGED << scans, scan_dishes, response_analyses, next_id >>
                 /\ UNCHANGED others
            ELSE /\ scans' = scans \ found
                 /\ scan_dishes' = { d \in scan_dishes : d.scan_id # scan_id }
                 /\ response_analyses' =
                        (response_analyses \ linked)
                          \cup { [ r EXCEPT !.scan_id = NoScan ] : r \in linked }
                 /\ last' = [ endpoint |-> "delete_scan", user |-> user, scan_id |-> scan_id,
                              status |-> 204,
                              dishes |-> { d.id : d \in { x \in scan_dishes : x.scan_id = scan_id } },
                              linked |-> { r.id : r \in linked } ]
                 /\ UNCHANGED next_id
                 /\ UNCHANGED others

\* DELETE /history: the response analyses of the user, then the scans of the
\* user with their dishes (ondelete="CASCADE"); the response analyses other
\* users linked to those scans stay, their scan_id set to NULL.
clear_scan_history ==
    \E user \in Users :
        LET mine == { sc.id : sc \in { x \in scans : x.user_id = user } }
            kept == { r \in response_analyses : r.user_id # user }
        IN  /\ scans' = { sc \in scans : sc.user_id # user }
            /\ scan_dishes' = { d \in scan_dishes : d.scan_id \notin mine }
            /\ response_analyses' =
                   { IF r.scan_id \in mine THEN [ r EXCEPT !.scan_id = NoScan ] ELSE r :
                       r \in kept }
            /\ last' = [ endpoint |-> "clear_history", user |-> user, status |-> 204 ]
            /\ UNCHANGED next_id
            /\ UNCHANGED others

\* requests to POST /response that name a stored scan
LinkedRequests ==
    { [ user |-> u, user_allergens |-> << "fish" >>, scan_id |-> i,
        response_text |-> "No, the kitchen uses no nuts at all" ] : u \in Users, i \in 1..2 }

\* POST /response with the id of a stored scan; at most MaxRows rows are
\* written after start-up
analyze_linked_response ==
    /\ next_id < FirstNewId + MaxRows
    /\ post_response(LinkedRequests, { Json(CompleteResponse) })

NextHistory ==
    \/ analyze_linked_response
    \/ get_scan_history
    \/ get_scan_detail
    \/ delete_scan
    \/ clear_scan_history

SpecHistory == InitHistory /\ [][NextHistory]_vars

(***************************************************************************)
(* SpecListing: the paginated listings GET /history and GET /responses,    *)
(* over the scans and response analyses stored at start-up.                *)
(***************************************************************************)
\* a stored ResponseAnalysis; the i-th is the i-th oldest, the third is of
\* user u2 and the others of u1, and the first two are linked to the first
\* scan, which u1 owns
StoredResponse(i) ==
    [ id |-> 50 + i, user_id |-> IF i = 3 THEN "u2" ELSE "u1",
      scan_id |-> IF i <= 2 THEN 1 ELSE NoScan,
      clarity |-> IF i = 1 THEN "dangerous" ELSE "unclear", confidence |-> 80,
      flags |-> << "don't worry" >>, created_at |-> 50 + i ]

InitListing ==
    /\ client = TRUE
    /\ allergens = seed_rows(<< >>)
    /\ seed_runs = 1
    /\ \E n \in 1..MaxStored :
           /\ scans = { StoredScan(i) : i \in 1..n }
           /\ scan_dishes = UNION { StoredDishes(i) : i \in 1..n }
           /\ response_analyses = { StoredResponse(i) : i \in 1..n }
    /\ next_id = FirstNewId
    /\ last = NoRequest
    /\ menu_text = ""
    /\ user_allergens = << >>
    /\ fallback = NoFallback
    /\ user_preferences = {}
    /\ user_allergen_rows = {}
    /\ sessions = NoSessions
    /\ users = {}

NextListing == get_scan_history \/ get_response_history

SpecListing == InitListing /\ [][NextListing]_vars

(***************************************************************************)
(* SpecPrefs: GET and PUT /me/preferences of routers/users.py.  A request  *)
(* runs in its own database session and is suspended at each await: the    *)
(* SELECT is one step and the commit another, and the requests in flight   *)
(* interleave between the two.                                             *)
(***************************************************************************)
MaxSessions == 2

Slots == 1..MaxSessions

\* CUISINE_OPTIONS
ValidCuisineIds ==
    { "american", "chinese", "indian", "italian", "japanese", "korean", "mexican", "thai",
      "vietnamese", "mediterranean", "french", "greek", "middle_eastern", "spanish", "other" }

\* UserPreferences(user_id=..., favorite_cuisines=[], risk_tolerance="standard",
\* default_dining_context="restaurant")
DefaultPreferences(user, id) ==
    [ id |-> id, user_id |-> user, favorite_cuisines |-> << >>,
      risk_tolerance |-> "standard", default_dining_context |-> "restaurant" ]

\* bodies of PUT /me/preferences: the fields that are not None
PreferencesUpdates ==
    { EmptyDict,
      ("favorite_cuisines" :> << "thai" >>) @@ ("risk_tolerance" :> "cautious"),
      "favorite_cuisines" :> << "martian" >> }

\* select(UserPreferences).where(UserPreferences.user_id == current_user.id)
preferences_of(user) == { p \in user_preferences : p.user_id = user }

\* unique=True on user_preferences.user_id: a row of the user may be inserted
user_id_unique(user) == preferences_of(user) = {}

\* the session of a slot ends
Close(slot) == [ k \in (DOMAIN sessions) \ { slot } |-> sessions[k] ]

\* a session opens in a free slot
Open(slot, session) == (slot :> session) @@ sessions

\* as WithFields, with the default in every field data does not have
WithFieldsReset(row, data) ==
    [ k \in DOMAIN row |->
        IF k \in DOMAIN data THEN data[k] ELSE DefaultPreferences(row.user_id, row.id)[k] ]

\* a row with the fields of data set
WithFields(row, data) ==
    [ k \in DOMAIN row |-> IF k \in DOMAIN data THEN data[k] ELSE row[k] ]

\* the favorite_cuisines of data are all cuisine ids
CuisinesValid(data) ==
    "favorite_cuisines" \in DOMAIN data =>
        \A i \in 1..Len(data["favorite_cuisines"]) :
            data["favorite_cuisines"][i] \in ValidCuisineIds

prefs_others == << users, client, allergens, scans, scan_dishes, response_analyses, seed_runs,
                   menu_text, user_allergens, fallback, user_allergen_rows >>

InitPrefs ==
    /\ client = TRUE
    /\ allergens = seed_rows(<< >>)
    /\ seed_runs = 1
    /\ scans = {}
    /\ scan_dishes = {}
    /\ response_analyses = {}
    /\ next_id = 1
    /\ last = NoRequest
    /\ menu_text = ""
    /\ user_allergens = << >>
    /\ fallback = NoFallback
    /\ user_preferences = {}
    /\ user_allergen_rows = {}
    /\ sessions = NoSessions
    /\ users = {}

\* GET /me/preferences up to the commit: a stored record is returned as it
\* is; with none, a record of defaults is added to the session
get_user_preferences ==
    \E slot \in Slots \ DOMAIN sessions, user \in Users :
        LET found == preferences_of(user)
        IN  /\ IF found # {}
               THEN /\ last' = [ endpoint |-> "get_prefs", user |-> user, status |-> 200,
                                 existed |-> found, preferences |-> found ]
                    /\ UNCHANGED sessions
               ELSE /\ sessions' = Open(slot, [ op |-> "get_prefs", user |-> user,
                                                found |-> {}, data |-> EmptyDict ])
                    /\ UNCHANGED last
            /\ UNCHANGED << user_preferences, next_id >>
            /\ UNCHANGED prefs_others

\* GET /me/preferences: db.commit() of the new record and the response; the
\* IntegrityError of a second record of the user is not caught
get_user_preferences_commit ==
    \E slot \in DOMAIN sessions :
        LET session == sessions[slot]
            row     == DefaultPreferences(session.user, next_id)
        IN  /\ session.op = "get_prefs"
            /\ sessions' = Close(slot)
            /\ IF user_id_unique(session.user)
               THEN /\ user_preferences' = user_preferences \cup { row }
                    /\ next_id' = next_id + 1
                    /\ last' = [ endpoint |-> "get_prefs", user |-> session.user,
                                 status |-> 200, existed |-> {}, preferences |-> { row } ]
               ELSE /\ UNCHANGED << user_preferences, next_id >>
                    /\ last' = [ endpoint |-> "get_prefs", user |-> session.user,
                                 status |-> 500, existed |-> {}, preferences |-> {} ]
            /\ UNCHANGED prefs_others

\* PUT /me/preferences up to the commit: the record is selected (one of
\* defaults is added when there is none), the cuisine ids are validated and
\* the fields of the body are set on the record.  An invalid cuisine id
\* raises before a field is set, and get_db rolls the session back on the
\* exception: a record that was added is not stored.
update_user_preferences ==
    \E slot \in Slots \ DOMAIN sessions, user \in Users, data \in PreferencesUpdates :
        LET found == preferences_of(user)
        IN  /\ IF ~CuisinesValid(data)
               THEN /\ last' = [ endpoint |-> "put_prefs", user |-> user, status |-> 400,
                                 data |-> data, existed |-> found, preferences |-> {} ]
                    /\ UNCHANGED sessions
               ELSE /\ sessions' = Open(slot, [ op |-> "put_prefs", user |-> user,
                                                found |-> found, data |-> data ])
                    /\ UNCHANGED last
            /\ UNCHANGED << user_preferences, next_id >>
            /\ UNCHANGED prefs_others

\* PUT /me/preferences: db.commit() and the response.  A new record is
\* inserted; of a record that was selected, the columns whose value the
\* request changed are updated.
update_user_preferences_commit ==
    \E slot \in DOMAIN sessions :
        LET session == sessions[slot]
            created == WithFields(DefaultPreferences(session.user, next_id), session.data)
            loaded  == CHOOSE p \in session.found : TRUE
            changed == [ k \in { f \in DOMAIN session.data : session.data[f] # loaded[f] }
                           |-> session.data[k] ]
            stored  == CHOOSE p \in user_preferences : p.id = loaded.id
        IN  /\ session.op = "put_prefs"
            /\ sessions' = Close(slot)
            /\ IF session.found = {}
               THEN IF user_id_unique(session.user)
                    THEN /\ user_preferences' = user_preferences \cup { created }
                         /\ next_id' = next_id + 1
                         /\ last' = [ endpoint |-> "put_prefs", user |-> session.user,
                                      status |-> 200, existed |-> {},
                                      preferences |-> { created } ]
                    ELSE /\ UNCHANGED << user_preferences, next_id >>
                         /\ last' = [ endpoint |-> "put_prefs", user |-> session.user,
                                      status |-> 500, existed |-> {}, preferences |-> {} ]
               ELSE /\ user_preferences' =
                           (user_preferences \ { stored }) \cup { WithFields(stored, changed) }
                    /\ UNCHANGED next_id
                    /\ last' = [ endpoint |-> "put_prefs", user |-> session.user,
                                 status |-> 200, existed |-> session.found,
                                 preferences |-> { WithFields(stored, changed) } ]
            /\ UNCHANGED prefs_others

NextPrefs ==
    \/ get_user_preferences
    \/ get_user_preferences_commit
    \/ update_user_preferences
    \/ update_user_preferences_commit

SpecPrefs == InitPrefs /\ [][NextPrefs]_vars

(***************************************************************************)
(* SpecUserAllergens: PUT and GET /me/allergens of routers/users.py.  A    *)
(* PUT runs in one transaction of its session: what it deleted and added   *)
(* is stored by db.commit() or undone by db.rollback().                    *)
(***************************************************************************)
MaxAllergenRows == 4

\* pattern="^(mild|moderate|severe)$"
Severities == { "mild", "moderate", "severe" }

UA(allergen_id, severity) == [ allergen_id |-> allergen_id, severity |-> severity ]

\* bodies of PUT /me/allergens: the list allergens
AllergenUpdates ==
    { << >>,
      << UA("fish", "severe") >>,
      << UA("soy", "mild"), UA("fish", "moderate") >>,
      << UA("fish", "severe"), UA("fish", "mild") >>,
      << UA("soy", "severe"), UA("nosuch", "severe") >>,
      << UA("soy", "deadly") >> }

\* UpdateUserAllergensRequest validates
UpdateRequestValid(request) == \A i \in 1..Len(request) : request[i].severity \in Severities

\* set(allergen_ids) - valid_allergens
invalid_ids(request) ==
    { request[i].allergen_id : i \in 1..Len(request) }
      \ { allergens[j].id : j \in 1..Len(allergens) }

\* the rows added for the request
new_allergens(user, request) ==
    { [ id |-> next_id + i - 1, user_id |-> user, allergen_id |-> request[i].allergen_id,
        severity |-> request[i].severity ] : i \in 1..Len(request) }

\* UniqueConstraint('user_id', 'allergen_id') holds of the rows
uq_user_allergen(rows) ==
    \A r1 \in rows, r2 \in rows :
        (r1.user_id = r2.user_id /\ r1.allergen_id = r2.allergen_id) => r1.id = r2.id

\* as rolled_back, keeping the DELETE of the failed transaction
delete_kept(user, rows) == { r \in rows : r.user_id # user }

\* db.rollback(): the table as it was before the transaction
rolled_back(user, rows) == rows

\* PUT /me/allergens: the status and the table after the request;
\* db_ok is false when the database fails at the commit
put_allergens_result(user, request, db_ok) ==
    LET kept    == { r \in user_allergen_rows : r.user_id # user }
        written == kept \cup new_allergens(user, request)
    IN  IF ~UpdateRequestValid(request)
        THEN [ status |-> 422, rows |-> user_allergen_rows, next_id |-> next_id ]
        ELSE IF invalid_ids(request) # {}
        THEN [ status |-> 400, rows |-> user_allergen_rows, next_id |-> next_id ]
        ELSE IF ~db_ok \/ ~uq_user_allergen(written)
        THEN [ status |-> 500, rows |-> rolled_back(user, user_allergen_rows),
               next_id |-> next_id ]
        ELSE [ status |-> 200, rows |-> written, next_id |-> next_id + Len(request) ]

allergens_others == << users, client, allergens, scans, scan_dishes, response_analyses, seed_runs,
                       menu_text, user_allergens, fallback, user_preferences, sessions >>

\* PUT /me/allergens
update_user_allergens ==
    \E user \in Users, request \in AllergenUpdates, db_ok \in BOOLEAN :
        LET res == put_allergens_result(user, request, db_ok)
        IN  /\ next_id + Len(request) - 1 <= MaxAllergenRows
            /\ user_allergen_rows' = res.rows
            /\ next_id' = res.next_id
            /\ last' = [ endpoint |-> "put_allergens", user |-> user, request |-> request,
                         db_ok |-> db_ok, status |-> res.status ]
            /\ UNCHANGED allergens_others

\* GET /me/allergens
get_user_allergens ==
    \E user \in Users :
        /\ last' = [ endpoint |-> "get_allergens", user |-> user, status |-> 200,
                     rows |-> { r \in user_allergen_rows : r.user_id = user } ]
        /\ UNCHANGED << user_allergen_rows, next_id >>
        /\ UNCHANGED allergens_others

NextUserAllergens == update_user_allergens \/ get_user_allergens

SpecUserAllergens == InitPrefs /\ [][NextUserAllergens]_vars

(***************************************************************************)
(* SpecQuestions: the template questions of routers/questions.py, for      *)
(* allergen lists of MaxQuestionAllergens or fewer identifiers and the     *)
(* dish names of DishNames.                                                *)
(***************************************************************************)
MaxQuestionAllergens == 2

\* the fields id and category of QUESTION_TEMPLATES
QUESTION_TEMPLATES ==
    << [ id |-> "general_contains", category |-> "General" ],
       [ id |-> "cross_contact", category |-> "Cross-Contact" ],
       [ id |-> "ingredients_check", category |-> "Ingredients" ],
       [ id |-> "hidden_sources", category |-> "Hidden Sources" ],
       [ id |-> "cooking_equipment", category |-> "Cooking Equipment" ],
       [ id |-> "chef_consultation", category |-> "Chef Consultation" ],
       [ id |-> "modification", category |-> "Modifications" ],
       [ id |-> "fryer_shared", category |-> "Cross-Contact" ] >>

\* as get_allergen_names, without the words for an empty list of names
get_allergen_names_blank(allergen_ids) ==
    Join(", ", Map(LAMBDA a : a.name,
                   SelectSeq(ALLERGENS_DATA, LAMBDA a : a.id \in Range(allergen_ids))))

get_allergen_names(allergen_ids) ==
    LET names == Map(LAMBDA a : a.name,
                     SelectSeq(ALLERGENS_DATA, LAMBDA a : a.id \in Range(allergen_ids)))
    IN  IF Len(names) > 0 THEN Join(", ", names) ELSE "your allergens"

RECURSIVE Extend(_)
\* all_hidden_sources after the loop: the first 3 hidden sources of each
\* relevant allergen
Extend(relevant) ==
    IF Len(relevant) = 0 THEN << >>
    ELSE Prefix(Head(relevant).hidden_sources, 3) \o Extend(Tail(relevant))

\* PersonalizedQuestion(category=..., question=..., priority=...)
PersonalizedQuestion(category, question, priority) ==
    [ category |-> category, question |-> question, priority |-> priority ]

\* PersonalizedQuestion validates
PriorityValid(q) == q.priority \in { "high", "medium", "low" }

\* Optional[str]: None, or a string
NoDishName == [ given |-> FALSE, value |-> "" ]

DishName(name) == [ given |-> TRUE, value |-> name ]

\* the questions of POST /questions/generate
generate_questions(request) ==
    LET allergen_names == get_allergen_names(request.allergens)
        relevant_allergens ==
            SelectSeq(ALLERGENS_DATA, LAMBDA a : a.id \in Range(request.allergens))
        all_hidden_sources == Extend(relevant_allergens)
        hidden_sources_str == Join(", ", Prefix(all_hidden_sources, 5))
    IN  << PersonalizedQuestion("General",
               "Does this dish contain any " \o allergen_names \o "?", "high"),
           PersonalizedQuestion("Cross-Contact",
               "Is this dish prepared separately from items containing "
                 \o allergen_names \o "?", "high") >>
        \o (IF Len(all_hidden_sources) > 0
            THEN << PersonalizedQuestion("Hidden Sources",
                        "I have allergies to " \o allergen_names
                          \o ". Can you check if any sauces, oils, or seasonings contain these? Some hidden sources include: "
                          \o hidden_sources_str \o ".", "high") >>
            ELSE << >>)
        \o (IF request.dish_name.given /\ Len(request.dish_name.value) > 0
            THEN << PersonalizedQuestion("Specific Dish",
                        "For the " \o request.dish_name.value
                          \o ", can you confirm it doesn't contain " \o allergen_names
                          \o " or come into contact with them during preparation?",
                        "high") >>
            ELSE << >>)
        \o << PersonalizedQuestion("Cooking Equipment",
                  "Is the cooking equipment cleaned between uses, or is it shared with dishes containing "
                    \o allergen_names \o "?", "medium"),
              PersonalizedQuestion("Chef Consultation",
                  "Could I speak with the chef about my severe allergy to "
                    \o allergen_names \o "?", "medium"),
              PersonalizedQuestion("Modifications",
                  "Can this dish be prepared without any " \o allergen_names \o "?", "low") >>

\* identifiers of a request: of the catalog or not
QuestionAllergenIds == { "fish", "soy", "nosuch" }

QuestionAllergenLists ==
    UNION { [ 1..n -> QuestionAllergenIds ] : n \in 0..MaxQuestionAllergens }

DishNames == { NoDishName, DishName(""), DishName("Pad Thai"), DishName("Tom Yum") }

\* GET /questions
get_questions ==
    /\ last' = [ endpoint |-> "templates", status |-> 200,
                 questions |-> QUESTION_TEMPLATES ]
    /\ UNCHANGED << users, client, allergens, scans, scan_dishes, response_analyses, next_id,
                    seed_runs, menu_text, user_allergens, fallback,
                    user_preferences, user_allergen_rows, sessions >>

\* POST /questions/generate
generate_questions_endpoint ==
    \E user \in Users, ids \in QuestionAllergenLists, dish_name \in DishNames :
        LET request   == [ allergens |-> ids, dish_name |-> dish_name ]
            questions == generate_questions(request)
        IN  /\ last' = [ endpoint |-> "generate", user |-> user, request |-> request,
                         status |-> IF \A i \in 1..Len(questions) : PriorityValid(questions[i])
                                    THEN 200 ELSE 500,
                         questions |-> questions,
                         allergen_summary |->
                             "You are avoiding: " \o get_allergen_names(ids) ]
            /\ UNCHANGED << users, client, allergens, scans, scan_dishes, response_analyses,
                            next_id, seed_runs, menu_text, user_allergens, fallback,
                            user_preferences, user_allergen_rows, sessions >>

NextQuestions == get_questions \/ generate_questions_endpoint

SpecQuestions == InitPrefs /\ [][NextQuestions]_vars

(***************************************************************************)
(* SpecAuth: routers/auth.py, core/deps.py and the account endpoints of    *)
(* routers/users.py.  A JWT is its payload and whether decode_token        *)
(* accepts it (signature and expiry); the tokens of a request are drawn    *)
(* from every payload.  The table users outlives the process: at start-up  *)
(* it holds an account registered by email and a disabled account.         *)
(***************************************************************************)
MaxUsers == 3

NoPasswordHash == ""

NoGoogleId == ""

\* payload.get("type") and payload.get("sub") of a payload without the key
NoType == ""

NoSub == 0

Emails == { "a@example.org", "b@example.org", "c@example.org" }

GoogleSubjects == { "g1", "g2" }

\* User(email=..., password_hash=..., auth_provider=..., google_id=...)
User(id, email, password_hash, auth_provider, google_id, is_active) ==
    [ id |-> id, email |-> email, password_hash |-> password_hash,
      auth_provider |-> auth_provider, google_id |-> google_id, is_active |-> is_active ]

StoredUsers ==
    { User(1, "a@example.org", "hash", "email", NoGoogleId, TRUE),
      User(2, "b@example.org", "hash", "email", NoGoogleId, FALSE) }

\* core.security.create_access_token(data) and create_refresh_token(data)
create_access_token(data) == [ valid |-> TRUE, payload |-> ("type" :> "access") @@ data ]

create_refresh_token(data) == [ valid |-> TRUE, payload |-> ("type" :> "refresh") @@ data ]

NoToken == [ valid |-> FALSE, payload |-> EmptyDict ]

\* core.security.decode_token: the payload, or None for a token that is
\* expired or not signed with the key
decode_token(token) ==
    IF token.valid THEN [ none |-> FALSE, payload |-> token.payload ]
    ELSE [ none |-> TRUE, payload |-> EmptyDict ]

Payloads ==
    { t @@ sb : t \in { EmptyDict, "type" :> "access", "type" :> "refresh" },
                sb \in { EmptyDict } \cup { "sub" :> i : i \in 1..MaxUsers } }

Tokens == { [ valid |-> v, payload |-> pl ] : v \in BOOLEAN, pl \in Payloads }

\* as has_type, accepting a payload of any type
has_any_type(payload, type) == TRUE

\* payload.get("type") == type
has_type(payload, type) == Get(payload, "type", NoType) = type

\* select(User).where(User.id == user_id)
user_by_id(user_id) == { u \in users : u.id = user_id }

\* core.deps.get_current_user: the status and the user
get_current_user(token) ==
    LET decoded == decode_token(token)
        user_id == Get(decoded.payload, "sub", NoSub)
        found   == user_by_id(user_id)
    IN  IF decoded.none THEN [ status |-> 401, user |-> {} ]
        ELSE IF ~has_type(decoded.payload, "access") THEN [ status |-> 401, user |-> {} ]
        ELSE IF user_id = NoSub THEN [ status |-> 401, user |-> {} ]
        ELSE IF found = {} THEN [ status |-> 404, user |-> {} ]
        ELSE IF \E u \in found : ~u.is_active THEN [ status |-> 403, user |-> {} ]
        ELSE [ status |-> 200, user |-> found ]

\* AuthResponse for a user: the tokens of the user
AuthResponse(endpoint, status, user) ==
    [ endpoint |-> endpoint, status |-> status, user |-> user.id,
      access_token |-> create_access_token("sub" :> user.id),
      refresh_token |-> create_refresh_token("sub" :> user.id) ]

\* the response of a request that raised HTTPException
AuthError(endpoint, status) ==
    [ endpoint |-> endpoint, status |-> status, user |-> NoSub,
      access_token |-> NoToken, refresh_token |-> NoToken ]

auth_others == << client, allergens, seed_runs, menu_text, user_allergens, fallback,
                  sessions >>

auth_tables == << scans, scan_dishes, response_analyses, user_preferences,
                  user_allergen_rows >>

InitAuth ==
    /\ client = TRUE
    /\ allergens = seed_rows(<< >>)
    /\ seed_runs = 1
    /\ scans = {}
    /\ scan_dishes = {}
    /\ response_analyses = {}
    /\ next_id = Cardinality(StoredUsers) + 1
    /\ last = NoRequest
    /\ menu_text = ""
    /\ user_allergens = << >>
    /\ fallback = NoFallback
    /\ user_preferences = {}
    /\ user_allergen_rows = {}
    /\ sessions = NoSessions
    /\ users = StoredUsers

\* POST /register
register ==
    \E email \in Emails :
        LET existing_user == { u \in users : u.email = email }
            new_user == User(next_id, email, "hash", "email", NoGoogleId, TRUE)
        IN  /\ next_id <= MaxUsers
            /\ IF existing_user # {}
               THEN /\ last' = ("email" :> email) @@ AuthError("register", 400)
                    /\ UNCHANGED << users, next_id >>
               ELSE /\ users' = users \cup { new_user }
                    /\ next_id' = next_id + 1
                    /\ last' = ("email" :> email) @@ AuthResponse("register", 201, new_user)
            /\ UNCHANGED auth_others
            /\ UNCHANGED auth_tables

\* POST /login; password_ok is verify_password(password, user.password_hash)
login ==
    \E email \in Emails, password_ok \in BOOLEAN :
        LET found == { u \in users : u.email = email }
            user  == CHOOSE u \in found : TRUE
        IN  /\ last' = IF found = {} THEN AuthError("login", 401)
                       ELSE IF user.password_hash = NoPasswordHash THEN AuthError("login", 400)
                       ELSE IF ~password_ok THEN AuthError("login", 401)
                       ELSE IF ~user.is_active THEN AuthError("login", 403)
                       ELSE AuthResponse("login", 200, user)
            /\ UNCHANGED << users, next_id >>
            /\ UNCHANGED auth_others
            /\ UNCHANGED auth_tables

\* POST /refresh
refresh_token ==
    \E token \in Tokens :
        LET decoded == decode_token(token)
            user_id == Get(decoded.payload, "sub", NoSub)
            found   == user_by_id(user_id)
            user    == CHOOSE u \in found : TRUE
        IN  /\ last' = ("token" :> token) @@
                       (IF decoded.none \/ ~has_type(decoded.payload, "refresh")
                        THEN AuthError("refresh", 401)
                        ELSE IF found = {} \/ ~user.is_active
                        THEN AuthError("refresh", 401)
                        ELSE AuthResponse("refresh", 200, user))
            /\ UNCHANGED << users, next_id >>
            /\ UNCHANGED auth_others
            /\ UNCHANGED auth_tables

\* GET /me
get_current_user_profile ==
    \E token \in Tokens :
        LET current == get_current_user(token)
        IN  /\ last' = [ endpoint |-> "me", status |-> current.status, token |-> token,
                         user |-> IF current.user = {} THEN NoSub
                                  ELSE (CHOOSE u \in current.user : TRUE).id ]
            /\ UNCHANGED << users, next_id >>
            /\ UNCHANGED auth_others
            /\ UNCHANGED auth_tables

\* DELETE /me: the user is deleted with the rows of the user's allergens,
\* scans (and their dishes), response analyses and preferences
\* (cascade="all, delete-orphan")
delete_current_user ==
    \E token \in Tokens :
        LET current == get_current_user(token)
            ids     == { u.id : u \in current.user }
            gone    == { sc.id : sc \in { x \in scans : x.user_id \in ids } }
        IN  /\ users' = users \ current.user
            /\ scans' = { sc \in scans : sc.user_id \notin ids }
            /\ scan_dishes' = { d \in scan_dishes : d.scan_id \notin gone }
            /\ response_analyses' =
                   { IF r.scan_id \in gone THEN [ r EXCEPT !.scan_id = NoScan ] ELSE r :
                       r \in { x \in response_analyses : x.user_id \notin ids } }
            /\ user_preferences' = { p \in user_preferences : p.user_id \notin ids }
            /\ user_allergen_rows' = { r \in user_allergen_rows : r.user_id \notin ids }
            /\ last' = [ endpoint |-> "delete_me", token |-> token,
                         status |-> IF current.status = 200 THEN 204 ELSE current.status,
                         user |-> IF current.user = {} THEN NoSub
                                  ELSE (CHOOSE u \in current.user : TRUE).id ]
            /\ UNCHANGED next_id
            /\ UNCHANGED auth_others

\* getattr(settings, 'GOOGLE_CLIENT_ID', None): Settings declares no field
\* of that name
google_client_id == FALSE

\* a Google ID token: whether Google's signature, expiry, audience and
\* issuer verify, and the subject and email it states
GoogleTokens ==
    { [ genuine |-> g, sub |-> sb, email |-> em ] :
        g \in BOOLEAN, sb \in GoogleSubjects, em \in Emails }

\* services.google_oauth.verify_google_token
verify_google_token(id_token) ==
    IF ~google_client_id THEN Raise("GoogleOAuthNotConfiguredError")
    ELSE IF ~id_token.genuine THEN Raise("GoogleOAuthError")
    ELSE Return([ provider_user_id |-> id_token.sub, email |-> id_token.email ])

\* POST /google: the response and the table users
google_auth_result(id_token) ==
    LET out         == verify_google_token(id_token)
        google_user == out.value
        found       == { u \in users : u.google_id = google_user.provider_user_id
                                         \/ u.email = google_user.email }
        user        == CHOOSE u \in found : TRUE
        linked      == [ user EXCEPT !.google_id = google_user.provider_user_id ]
        new_user    == User(next_id, google_user.email, NoPasswordHash, "google",
                            google_user.provider_user_id, TRUE)
        kept(resp)  == [ response |-> resp, users |-> users, next_id |-> next_id ]
    IN  IF out.raised
        THEN kept(AuthError("google", IF out.exc = "GoogleOAuthNotConfiguredError"
                                      THEN 503 ELSE 401))
        ELSE IF Cardinality(found) > 1 THEN kept(AuthError("google", 500))
        ELSE IF found # {}
        THEN IF ~user.is_active THEN kept(AuthError("google", 403))
             ELSE IF user.google_id = NoGoogleId /\ user.auth_provider = "email"
             THEN [ response |-> AuthResponse("google", 200, linked),
                    users |-> (users \ { user }) \cup { linked }, next_id |-> next_id ]
             ELSE kept(AuthResponse("google", 200, user))
        ELSE [ response |-> AuthResponse("google", 200, new_user),
               users |-> users \cup { new_user }, next_id |-> next_id + 1 ]

\* POST /google
google_auth ==
    \E id_token \in GoogleTokens :
        LET res == google_auth_result(id_token)
        IN  /\ next_id <= MaxUsers
            /\ users' = res.users
            /\ next_id' = res.next_id
            /\ last' = ("id_token" :> id_token) @@ res.response
            /\ UNCHANGED auth_others
            /\ UNCHANGED auth_tables

NextAuth ==
    \/ register
    \/ login
    \/ refresh_token
    \/ get_current_user_profile
    \/ delete_current_user
    \/ google_auth

SpecAuth == InitAuth /\ [][NextAuth]_vars

(***************************************************************************)
(* Properties of the request handlers (Spec).                              *)
(***************************************************************************)
\* a dish of the model states a value outside the output contract
DishMalformed(d) ==
    \/ "risk_level" \in DOMAIN d /\ d["risk_level"] \notin RiskLevels
    \/ "confidence" \in DOMAIN d /\ ~ConfidenceInRange(d["confidence"])

\* The menu classification of the last request failed: no client, an
\* exception, a reply that is not JSON, or a dish outside the contract.
MenuClassificationFailed ==
    \/ last.backend # "json"
    \/ last.exc # ""
    \/ \E i \in 1..Len(last.model_dishes) : DishMalformed(last.model_dishes[i])

\* C1: when the menu classification fails, POST /menu and POST /dish answer
\* with an error and no dish (so no dish of tier "low"); every dish that is
\* returned has tier "medium" when the model's dish states no risk_level.
C1_FailureNeverLow ==
    last.endpoint \in { "menu", "dish" } =>
        /\ MenuClassificationFailed =>
               /\ last.status \in { 500, 503 }
               /\ \A i \in 1..Len(last.dishes) : last.dishes[i].risk_level # "low"
        /\ \A i \in 1..Len(last.dishes) :
               /\ last.dishes[i].risk_level \in RiskLevels
               /\ "risk_level" \notin DOMAIN last.model_dishes[i] =>
                      last.dishes[i].risk_level = "medium"

C1_Witness ==
    /\ last.endpoint = "dish"
    /\ last.backend = "json"
    /\ last.status = 200
    /\ Len(last.dishes) = 1
    /\ "risk_level" \notin DOMAIN last.model_dishes[1]
    /\ last.dishes[1].risk_level = "medium"

\* the reply to the staff-response classification is outside the contract
ResponseMalformed(d) ==
    \/ "clarity" \in DOMAIN d /\ d["clarity"] \notin Clarities
    \/ "confidence" \in DOMAIN d /\ ~ConfidenceInRange(d["confidence"])

ResponseClassificationFailed ==
    \/ last.backend # "json"
    \/ last.exc # ""
    \/ ResponseMalformed(last.model_json)

\* C2: when the staff-response classification fails, POST /response returns
\* no clarity "clear" and stores no ResponseAnalysis of clarity "clear" for
\* the request; a reply that omits clarity is reported as "unclear".
C2_FailureNeverClear ==
    last.endpoint = "response" =>
        /\ ResponseClassificationFailed =>
               /\ last.clarity # "clear"
               /\ \A r \in last.created : r.clarity # "clear"
        /\ (last.backend = "json" /\ "clarity" \notin DOMAIN last.model_json) =>
               /\ last.status = 200 => last.clarity = "unclear"
               /\ \A r \in last.created : r.clarity = "unclear"

\* C6: every confidence value, returned or stored, lies in [0.0, 1.0].
C6_ConfidenceInRange ==
    /\ \A sc \in scans : ConfidenceInRange(sc.avg_confidence)
    /\ \A d \in scan_dishes : ConfidenceInRange(d.confidence)
    /\ \A r \in response_analyses : ConfidenceInRange(r.confidence)
    /\ last.endpoint \in { "menu", "dish" } =>
           \A i \in 1..Len(last.dishes) : ConfidenceInRange(last.dishes[i].confidence)
    /\ (last.endpoint = "response" /\ last.status = 200) =>
           ConfidenceInRange(last.confidence)

\* C7: every stored ScanDish.risk_level is one of low, medium, high and every
\* stored ResponseAnalysis.clarity is one of clear, unclear, dangerous.
C7_ClosedEnumerations ==
    /\ \A d \in scan_dishes : d.risk_level \in RiskLevels
    /\ \A r \in response_analyses : r.clarity \in Clarities

\* C10: without a client, POST /menu, POST /dish, POST /response and
\* POST /questions/smart each answer 503.
C10_Unconfigured503 ==
    (~client /\ last.endpoint \in { "menu", "dish", "response", "smart" }) =>
        last.status = 503

\* an identifier of the request is not in the allergen catalog
UnknownAllergen(ids) == \E i \in 1..Len(ids) : ids[i] \notin CatalogIds

\* C11: a request to POST /menu, POST /dish or POST /response that names
\* an allergen identifier outside the catalog is answered with a validation
\* error (400 or 422), the model backend is not called for it and nothing is
\* stored for it.
C11_UnknownAllergenRejected ==
    (last.endpoint \in { "menu", "dish", "response" } /\ UnknownAllergen(last.user_allergens)) =>
        /\ last.status \in { 400, 422 }
        /\ ~last.backend_called
        /\ last.endpoint = "response" => last.created = {}

\* the lexicons of the response fallback
DismissalPhrases == { "it's fine", "don't worry", "a little won't hurt" }

UncertaintyPhrases == { "i think", "probably", "might", "not sure", "possibly" }

HasPhrase(text, phrases) == \E ph \in phrases : Contains(ph, Lower(text))

\* the model backend is unavailable: no client, or the call fails
BackendUnavailable == last.backend \in { "not_configured", "api_error" }

\* C12: with the backend unavailable the staff reply is classified
\* by lexicon: a dismissal phrase gives "dangerous" with a flag, otherwise
\* an uncertainty phrase gives "unclear" with a flag, otherwise "unclear";
\* never "clear".
C12_FallbackLexicon ==
    (last.endpoint = "response" /\ BackendUnavailable) =>
        /\ last.clarity # "clear"
        /\ HasPhrase(last.response_text, DismissalPhrases) =>
               last.clarity = "dangerous" /\ Len(last.flags) >= 1
        /\ (~HasPhrase(last.response_text, DismissalPhrases)
              /\ HasPhrase(last.response_text, UncertaintyPhrases)) =>
               last.clarity = "unclear" /\ Len(last.flags) >= 1
        /\ (~HasPhrase(last.response_text, DismissalPhrases)
              /\ ~HasPhrase(last.response_text, UncertaintyPhrases)) =>
               last.clarity = "unclear"

\* C13: when the model's classification succeeded and the write or commit
\* of its Scan (POST /menu) or ResponseAnalysis (POST /response) raises,
\* the request still answers 200 with the classification.
C13_ResultSurvivesWriteFailure ==
    /\ (last.endpoint = "response" /\ ~ResponseClassificationFailed /\ last.commit_raised) =>
           /\ last.status = 200
           /\ last.clarity = Get(last.model_json, "clarity", DefaultClarity)
    /\ (last.endpoint = "menu" /\ ~MenuClassificationFailed /\ last.commit_raised) =>
           /\ last.status = 200
           /\ Len(last.dishes) = Len(last.model_dishes)

\* C15: a dish or a staff-reply result of the model that lacks a required
\* field is a backend failure: the request answers with an error, returns no
\* verdict and stores none.
C15_MissingFieldIsFailure ==
    /\ (/\ last.endpoint \in { "menu", "dish" }
        /\ last.backend = "json"
        /\ \E i \in 1..Len(last.model_dishes) :
               ~(RequiredDishFields \subseteq DOMAIN last.model_dishes[i])) =>
           /\ last.status \in { 500, 503 }
           /\ last.dishes = << >>
    /\ (/\ last.endpoint = "response"
        /\ last.backend = "json"
        /\ ~(RequiredResponseFields \subseteq DOMAIN last.model_json)) =>
           /\ last.status \in { 500, 503 }
           /\ last.clarity = ""
           /\ last.created = {}

\* the model call of the last request failed: no client, a failed call, or
\* output that is not JSON
ModelCallFailed == last.backend \in { "not_configured", "api_error", "unparsable" }

\* the dishes of the rule-based analysis, with the fields of a DishAnalysis
RuleBasedAnalyses(text, ids) ==
    LET dishes == rule_based_menu_analysis(text, ids).dishes
    IN  [ i \in 1..Len(dishes) |->
            [ name |-> dishes[i].name, risk_level |-> dishes[i].risk_level,
              detected_allergens |-> dishes[i].detected_allergens,
              confidence |-> dishes[i].confidence ] ]

\* C21: one fallback strategy applies to every failure of the model call
\* and every entry point: POST /menu, documented as using the rule-based
\* fallback, answers a failed model call with the rule-based analysis of the
\* menu text, and then POST /dish and POST /response do not answer the same
\* failure with an error.
C21_UniformFallback ==
    /\ (last.endpoint = "menu" /\ ModelCallFailed) =>
           /\ last.status = 200
           /\ last.dishes = RuleBasedAnalyses(last.menu_text, last.user_allergens)
    /\ (last.endpoint \in { "dish", "response" } /\ ModelCallFailed) =>
           last.status \notin { 500, 503 }

\* C22: in every DishAnalysis returned by POST /menu or POST /dish, and in
\* every ScanDish stored for the request, detected_allergens is a subset of
\* the allergen identifiers of the request, whatever the model returned.
C22_DetectedSubset ==
    last.endpoint \in { "menu", "dish" } =>
        /\ \A i \in 1..Len(last.dishes) :
               Range(last.dishes[i].detected_allergens) \subseteq Range(last.user_allergens)
        /\ last.endpoint = "menu" =>
               \A d \in scan_dishes :
                   Range(d.detected_allergens) \subseteq Range(last.user_allergens)

\* the fields POST /questions/smart reads from the model's result
SmartResultFields == { "questions", "risk_summary", "critical_allergens", "most_concerning" }

C28_ErrorStep ==
    /\ (last'.endpoint = "menu" /\ last'.status \in { 500, 503 }) =>
           UNCHANGED << scans, scan_dishes >>
    /\ (last'.endpoint = "response" /\ last'.status \in { 500, 503 }) =>
           UNCHANGED response_analyses

C28_ErrorLeavesNoRecord == [][C28_ErrorStep]_vars

(***************************************************************************)
(* Properties of the template questions (SpecQuestions).                   *)
(***************************************************************************)
PriorityRank(priority) ==
    CASE priority = "high" -> 0 [] priority = "medium" -> 1 [] priority = "low" -> 2
      [] OTHER -> 3

\* no identifier of the list is in the catalog
NoneInCatalog(ids) == Range(ids) \cap CatalogIds = {}

\* C23: POST /questions/generate answers every allergen list and optional
\* dish name with a list of questions, each of priority high, medium or low;
\* the General and Cross-Contact questions are present with priority
\* high; no question precedes one of a higher priority; when no requested
\* identifier is in the catalog the questions name "your allergens".
C23_TemplateQuestions ==
    last.endpoint = "generate" =>
        /\ last.status = 200
        /\ \A i \in 1..Len(last.questions) :
               last.questions[i].priority \in { "high", "medium", "low" }
        /\ \E i \in 1..Len(last.questions) :
               last.questions[i].category = "General" /\ last.questions[i].priority = "high"
        /\ \E i \in 1..Len(last.questions) :
               /\ last.questions[i].category = "Cross-Contact"
               /\ last.questions[i].priority = "high"
        /\ \A i, j \in 1..Len(last.questions) :
               i < j => PriorityRank(last.questions[i].priority)
                          <= PriorityRank(last.questions[j].priority)
        /\ NoneInCatalog(last.request.allergens) =>
               \A i \in 1..Len(last.questions) :
                   Contains("your allergens", last.questions[i].question)

C23_Witness ==
    /\ last.endpoint = "generate"
    /\ Len(last.request.allergens) > 0
    /\ NoneInCatalog(last.request.allergens)
    /\ last.request.dish_name.given
    /\ \E i \in 1..Len(last.questions) :
           /\ last.questions[i].category = "Specific Dish"
           /\ Contains("your allergens", last.questions[i].question)
    /\ \E i \in 1..Len(last.questions) : last.questions[i].priority = "low"

(***************************************************************************)
(* Properties of the scan history (SpecHistory).                           *)
(***************************************************************************)
\* what GET /history and GET /history/{scan_id} return belongs to the caller
C16_ReadsOwned ==
    /\ last.endpoint = "history" =>
           \A i \in 1..Len(last.scans) :
               /\ last.scans[i].user_id = last.user
               /\ \E sc \in scans : sc.id = last.scans[i].id /\ sc.user_id = last.user
    /\ last.endpoint = "detail" =>
           /\ \A sc \in last.found : sc.user_id = last.user
           /\ (\E sc \in scans : sc.id = last.scan_id /\ sc.user_id # last.user) =>
                  last.status \in { 400, 404 }

\* a DELETE /history/{scan_id} for a scan of another user answers 404 (400
\* for a malformed id) and leaves the scan and its dishes as they are
C16_DeleteOwned ==
    (/\ last'.endpoint = "delete_scan"
     /\ \E sc \in scans : sc.id = last'.scan_id /\ sc.user_id # last'.user) =>
        /\ last'.status \in { 400, 404 }
        /\ scans' = scans
        /\ scan_dishes' = scan_dishes

\* C16: GET /history and GET /history/{scan_id} return only scans of the
\* caller, and DELETE /history/{scan_id} by a user who does not own the scan
\* answers 404 and leaves the scan and its dishes unchanged.
C16_OwnerScoped == [](C16_ReadsOwned) /\ [][C16_DeleteOwned]_vars

C16_Witness ==
    /\ last.endpoint = "delete_scan"
    /\ last.status = 404
    /\ \E sc \in scans :
           /\ sc.id = last.scan_id
           /\ sc.user_id # last.user
           /\ \E d \in scan_dishes : d.scan_id = sc.id

\* C17: after DELETE /history/{scan_id} succeeded, no ScanDish of the scan
\* and no ResponseAnalysis that was linked to the scan is stored.
C17_DeleteCascades ==
    (last.endpoint = "delete_scan" /\ last.status = 204) =>
        /\ \A sc \in scans : sc.id # last.scan_id
        /\ \A d \in scan_dishes : d.scan_id # last.scan_id /\ d.id \notin last.dishes
        /\ \A r \in response_analyses : r.id \notin last.linked

\* C29: a response analysis is linked (POST /response with scan_id) only to
\* a scan of the user who created it, and GET /history/{scan_id} shows the
\* owner of the scan only response analyses created by that owner.
C29_NoCrossUserResponses ==
    /\ \A r \in response_analyses :
           r.scan_id # NoScan =>
               \E sc \in scans : sc.id = r.scan_id /\ sc.user_id = r.user_id
    /\ (last.endpoint = "detail" /\ last.status = 200) =>
           \A r \in last.response_analyses : r.user_id = last.user

\* the scan detail of a user lists a response analysis of another user
CrossUserDetail ==
    /\ last.endpoint = "detail"
    /\ last.status = 200
    /\ \E r \in last.response_analyses : r.user_id # last.user

(***************************************************************************)
(* Properties of the listings (SpecListing).                               *)
(***************************************************************************)
\* the entries a listing returned, and the records of the caller that its
\* filter selects
Listed == IF last.endpoint = "history" THEN last.scans ELSE last.responses

ListedFrom ==
    IF last.endpoint = "history" THEN { sc \in scans : sc.user_id = last.user }
    ELSE { r \in response_analyses :
             r.user_id = last.user /\ (last.filter.given => r.scan_id = last.filter.id) }

\* C25: GET /history and GET /responses treat page < 1 as 1 and page_size
\* outside 1..50 as 10; the result holds at most page_size entries, all of
\* the caller, most recent first: the entries at positions
\* (page - 1) * page_size onward of the caller's records by created_at
\* descending; total_count is the number of the caller's records that match
\* the filter.
C25_Pagination ==
    (last.endpoint \in { "history", "responses" } /\ last.status = 200) =>
        LET offset == (last.page - 1) * last.page_size
            ids    == { Listed[i].id : i \in 1..Len(Listed) }
        IN  /\ last.page = (IF last.page_in < 1 THEN 1 ELSE last.page_in)
            /\ last.page_size = (IF last.page_size_in \in 1..50 THEN last.page_size_in ELSE 10)
            /\ Len(Listed) <= last.page_size
            /\ \A i \in 1..Len(Listed) :
                   /\ Listed[i].user_id = last.user
                   /\ \E x \in ListedFrom :
                          x.id = Listed[i].id /\ x.created_at = Listed[i].created_at
            /\ \A i, j \in 1..Len(Listed) :
                   i < j => Listed[i].created_at > Listed[j].created_at
            /\ \A i \in 1..Len(Listed) :
                   Cardinality({ x \in ListedFrom : x.created_at > Listed[i].created_at })
                     = offset + i - 1
            /\ Len(Listed) < last.page_size =>
                   Cardinality(ListedFrom) <= offset + Len(Listed)
            /\ last.total_count = Cardinality(ListedFrom)

\* the second page of one entry of three response analyses, two of them of
\* the caller, holds the older one of the caller
C25_Witness ==
    /\ last.endpoint = "responses"
    /\ last.status = 200
    /\ ~last.filter.given
    /\ last.page = 2
    /\ last.page_size = 1
    /\ last.total_count = 2
    /\ Cardinality(response_analyses) = 3
    /\ Len(last.responses) = 1
    /\ last.responses[1].id = 51

(***************************************************************************)
(* Properties of the accounts (SpecAuth).                                  *)
(***************************************************************************)
\* the token of the last request states this type and is accepted by
\* decode_token
PresentedType(type) ==
    /\ last.token.valid
    /\ Get(last.token.payload, "type", NoType) = type

\* the subject of the token of the last request
PresentedSub == Get(last.token.payload, "sub", NoSub)

\* C26: get_current_user authenticates a request only with a token of type
\* "access" whose subject is an existing active user, and POST /refresh
\* issues new tokens only for a token of type "refresh" whose subject is an
\* existing active user, the new tokens being of that user; a refresh token
\* never authenticates a request and an access token never refreshes.
C26_TokenTypes ==
    /\ (last.endpoint = "me" /\ last.status = 200) =>
           /\ PresentedType("access")
           /\ last.user = PresentedSub
           /\ \E u \in users : u.id = PresentedSub /\ u.is_active
    /\ (last.endpoint = "delete_me" /\ last.status = 204) =>
           /\ PresentedType("access")
           /\ last.user = PresentedSub
           /\ PresentedSub # NoSub
    /\ (last.endpoint = "refresh" /\ last.status = 200) =>
           /\ PresentedType("refresh")
           /\ \E u \in users : u.id = PresentedSub /\ u.is_active
           /\ last.access_token = create_access_token("sub" :> PresentedSub)
           /\ last.refresh_token = create_refresh_token("sub" :> PresentedSub)
    /\ (last.endpoint \in { "me", "delete_me" } /\ PresentedType("refresh")) =>
           last.status = 401
    /\ (last.endpoint = "refresh" /\ PresentedType("access")) =>
           /\ last.status = 401
           /\ last.access_token = NoToken
           /\ last.refresh_token = NoToken

\* GET /me with the refresh token of an existing active user is answered 401
C26_Witness ==
    /\ last.endpoint = "me"
    /\ last.status = 401
    /\ PresentedType("refresh")
    /\ \E u \in users : u.id = PresentedSub /\ u.is_active

(***************************************************************************)
(* Properties of the preferences (SpecPrefs).                              *)
(***************************************************************************)
\* C18: GET /me/preferences returns the stored record as it is when there
\* is one and otherwise creates one of defaults; under any interleaving of
\* GET and PUT requests of a user there is at most one UserPreferences
\* record of the user, and every request (with valid cuisine ids) succeeds.
C18_GetOrCreate ==
    /\ \A user \in Users : Cardinality(preferences_of(user)) <= 1
    /\ (last.endpoint = "get_prefs" /\ last.status = 200) =>
           IF last.existed # {}
           THEN last.preferences = last.existed
           ELSE \E p \in last.preferences :
                    /\ p.user_id = last.user
                    /\ p.favorite_cuisines = << >>
                    /\ p.risk_tolerance = "standard"
                    /\ p.default_dining_context = "restaurant"
    /\ (last.endpoint \in { "get_prefs", "put_prefs" } /\ last.status # 400) =>
           last.status = 200

\* the fields a PUT /me/preferences can set
PreferenceFields == { "favorite_cuisines", "risk_tolerance", "default_dining_context" }

\* the table after a PUT of the user with the body data that found the
\* record of existed (or none): the fields of data are set and no other
PartialUpdateDone(user, data, existed) ==
    LET before == preferences_of(user)
        after  == { p \in user_preferences' : p.user_id = user }
    IN  /\ Cardinality(after) = 1
        /\ \A q \in after, f \in PreferenceFields \ DOMAIN data :
               IF before = {}
               THEN q[f] = DefaultPreferences(q.user_id, q.id)[f]
               ELSE \A p \in before : q[f] = p[f] /\ q.id = p.id
        /\ before = existed => \A q \in after, f \in DOMAIN data : q[f] = data[f]

\* a step in which a PUT /me/preferences answers: at its commit, or with 400
C24_PartialStep ==
    /\ \A slot \in DOMAIN sessions \ DOMAIN sessions' :
           sessions[slot].op = "put_prefs" =>
               /\ last'.endpoint = "put_prefs"
               /\ last'.user = sessions[slot].user
               /\ \A p \in user_preferences :
                      p.user_id # last'.user => p \in user_preferences'
               /\ \A p \in user_preferences' :
                      p.user_id # last'.user => p \in user_preferences
               /\ last'.status # 200 => user_preferences' = user_preferences
               /\ last'.status = 200 =>
                      PartialUpdateDone(last'.user, sessions[slot].data, sessions[slot].found)
    /\ (last'.endpoint = "put_prefs" /\ last'.status = 400) =>
           /\ ~CuisinesValid(last'.data)
           /\ user_preferences' = user_preferences
    /\ \A slot \in DOMAIN sessions' :
           sessions'[slot].op = "put_prefs" => CuisinesValid(sessions'[slot].data)

\* C24: PUT /me/preferences changes the fields present in the request and
\* no other: every other field of the stored record keeps its value (the
\* default in a record the request creates), no record of another user
\* changes, and a request with an invalid cuisine answers 400 and leaves the
\* table as it was, creating no record.
C24_PartialUpdate == [][C24_PartialStep]_vars

\* a PUT of the cuisines and the risk tolerance created the record, which
\* has the default dining context, or found the record whose cuisines and
\* risk tolerance an earlier PUT had set, and the record is still the same
C24_Witness ==
    /\ last.endpoint = "put_prefs"
    /\ last.status = 200
    /\ \E q \in preferences_of(last.user) :
           /\ q.favorite_cuisines = << "thai" >>
           /\ q.risk_tolerance = "cautious"
           /\ q.default_dining_context = "restaurant"
           /\ last.existed = { q }
           /\ last.preferences = { q }
    /\ \E p \in user_preferences : p.user_id # last.user

(***************************************************************************)
(* Properties of the user's allergens (SpecUserAllergens).                 *)
(***************************************************************************)
\* the pairs (allergen_id, severity) stored for a user in a table
StoredPairs(rows, user) ==
    { UA(r.allergen_id, r.severity) : r \in { x \in rows : x.user_id = user } }

\* the request names an allergen id twice
NamesTwice(request) ==
    \E i \in 1..Len(request), j \in 1..Len(request) :
        i # j /\ request[i].allergen_id = request[j].allergen_id

\* a PUT /me/allergens either stores exactly the requested list for the
\* caller or leaves the table as it was, and never touches another user
C19_ReplaceOrKeep ==
    (last'.endpoint = "put_allergens"
       /\ (last' # last \/ user_allergen_rows' # user_allergen_rows)) =>
        /\ \A u \in Users \ { last'.user } :
               { r \in user_allergen_rows' : r.user_id = u }
                 = { r \in user_allergen_rows : r.user_id = u }
        /\ IF last'.status = 200
           THEN /\ StoredPairs(user_allergen_rows', last'.user) = Range(last'.request)
                /\ Cardinality({ r \in user_allergen_rows' : r.user_id = last'.user })
                     = Len(last'.request)
           ELSE user_allergen_rows' = user_allergen_rows
        /\ (\/ NamesTwice(last'.request)
            \/ \E i \in 1..Len(last'.request) : last'.request[i].allergen_id \notin CatalogIds
            \/ ~last'.db_ok) => last'.status # 200

Requested == Range(user_allergens) \cap CatalogIds

\* some term of terms occurs in text, ignoring case
Occurs(terms, text) == \E term \in Range(terms) : Contains(Lower(term), Lower(text))

\* the rule-based analysis detects requested identifiers only
RuleBasedDetectedSubset ==
    fallback.done =>
        \A i \in 1..Len(fallback.dishes) :
            Range(fallback.dishes[i].detected_allergens) \subseteq Range(user_allergens)

\* C3: if the menu text contains a synonym of a requested allergen, that
\* allergen's identifier is in detected_allergens of a returned dish whose
\* risk tier is "high".
C3_SynonymDetected ==
    fallback.done =>
        \A id \in Requested :
            Occurs(CatalogEntryOf(id).synonyms, menu_text) =>
                \E i \in 1..Len(fallback.dishes) :
                    /\ id \in Range(fallback.dishes[i].detected_allergens)
                    /\ fallback.dishes[i].risk_level = "high"

\* C4: every returned dish whose text holds no name, synonym or hidden-source
\* term of a requested allergen has risk tier "medium", no detected allergen
\* and a note saying that AI analysis was unavailable and that the
\* ingredients must be verified with staff.
NoTermOccurs(dish_text) ==
    \A id \in Requested : ~Occurs(all_terms(CatalogEntryOf(id)), dish_text)

C4_NoMatchIsMedium ==
    fallback.done =>
        \A i \in 1..Len(fallback.dishes) :
            NoTermOccurs(fallback.extracted[i]) =>
                /\ fallback.dishes[i].risk_level = "medium"
                /\ fallback.dishes[i].detected_allergens = << >>
                /\ Contains("AI analysis unavailable", fallback.dishes[i].notes)
                /\ Contains("erify", fallback.dishes[i].notes)
                /\ Contains("restaurant staff", fallback.dishes[i].notes)

C4_Witness ==
    /\ fallback.done
    /\ Requested # {}
    /\ \E i \in 1..Len(fallback.dishes) :
           /\ NoTermOccurs(fallback.extracted[i])
           /\ fallback.dishes[i].risk_level = "medium"
    /\ \E i \in 1..Len(fallback.dishes) : fallback.dishes[i].risk_level = "high"

\* the tiers of risk_level, "safe" lowest
RiskTier(risk_level) ==
    CASE risk_level = "safe" -> 0
      [] risk_level = "low" -> 1
      [] risk_level = "medium" -> 2
      [] risk_level = "high" -> 3

\* C30: for one menu text and allergen lists with set(A) a subset of set(B),
\* rule_based_menu_analysis returns the same dishes (names, order) for A and
\* B, the detected_allergens of each dish for A are among those for B, and
\* no dish has a lower risk tier for B than for A; lists with the same set
\* of identifiers give the same result.
C30_MonotoneFallback ==
    last.endpoint = "fallback" =>
        LET forA == last.dishes
            forB == fallback.dishes
        IN  /\ Range(last.user_allergens) \subseteq Range(user_allergens)
            /\ Len(forA) = Len(forB)
            /\ \A i \in 1..Len(forA) :
                   /\ forA[i].name = forB[i].name
                   /\ Range(forA[i].detected_allergens)
                         \subseteq Range(forB[i].detected_allergens)
                   /\ RiskTier(forA[i].risk_level) <= RiskTier(forB[i].risk_level)
            /\ Range(last.user_allergens) = Range(user_allergens) => forA = forB

\* of two dishes analysed for ["fish"] and then for ["fish", "shellfish",
\* "soy"], one stays "high" with a second allergen detected and the other
\* goes from "medium" to "high"
C30_Witness ==
    /\ last.endpoint = "fallback"
    /\ last.user_allergens = << "fish" >>
    /\ user_allergens = << "fish", "shellfish", "soy" >>
    /\ Len(fallback.dishes) = 2
    /\ \E i, j \in 1..Len(fallback.dishes) :
           /\ last.dishes[i].risk_level = "high"
           /\ last.dishes[i].detected_allergens = << "fish" >>
           /\ fallback.dishes[i].risk_level = "high"
           /\ fallback.dishes[i].detected_allergens = << "fish", "shellfish" >>
           /\ last.dishes[j].risk_level = "medium"
           /\ fallback.dishes[j].risk_level = "high"
           /\ fallback.dishes[j].detected_allergens = << "soy" >>

\* C5: the extracted list has at most 15 entries and, for a non-empty menu
\* text, at least one; when every line is filtered out (blank, 3 characters
\* or fewer, price only, section header) its single entry is the menu text,
\* cut to 100 characters plus "..." when longer.
LineFiltered(line) ==
    \/ Len(Strip(line)) <= MinLineLen
    \/ _is_price_only(Strip(line))
    \/ _is_section_header(Strip(line))

AllLinesFiltered(text) == \A l \in Range(SplitLines(text)) : LineFiltered(l)

C5_ExtractBounds ==
    fallback.done =>
        /\ Len(fallback.extracted) <= MaxDishes
        /\ Len(menu_text) > 0 => Len(fallback.extracted) >= 1
        /\ AllLinesFiltered(menu_text) =>
               /\ Len(fallback.extracted) = 1
               /\ Len(menu_text) <= MaxFallbackChars => fallback.extracted[1] = menu_text
               /\ Len(menu_text) > MaxFallbackChars =>
                      fallback.extracted[1] = SubSeq(menu_text, 1, MaxFallbackChars) \o "..."

C5_Witness ==
    /\ fallback.done
    /\ Len(potential_dishes(menu_text)) > MaxDishes
    /\ Len(fallback.extracted) = MaxDishes

====
